---------------------------- MODULE Spec2Model ----------------------------
(***************************************************************************)
(* A model of the spotidown repository.                                    *)
(*                                                                         *)
(*   Part I   - the job status tracker of src/app.py: the global           *)
(*              download_status map, the download_track handler, the       *)
(*              process_download worker thread (one step per statement:    *)
(*              the worker takes no lock, so a reader can run between any  *)
(*              two of its statements) and the get_status handler.         *)
(*   Part II  - download_batch of src/src/spotify_downloader/downloader.py *)
(*              on a ThreadPoolExecutor.                                   *)
(***************************************************************************)
EXTENDS Integers, Sequences, FiniteSets, TLC

VARIABLES
    download_status,  \* app.py:32   job id -> address of the job's dict
    heap,             \* the dict objects: address -> record
    pc,               \* job id -> position of its process_download thread
    loc,              \* job id -> locals of the thread (result, e)
    issued,           \* the download_id values download_track has returned
    resp,             \* reader -> what its last request returned
    max_workers,      \* downloader.py:66  self.max_workers
    items,            \* download_batch: the (SearchResult, TrackMetadata) pairs
    files,            \* the output directory: file name -> content
    bpc,              \* position of the thread that called download_batch
    queue,            \* the executor's work queue: submitted, not yet started
    dpc,              \* item -> position of its download_single call
    dloc,             \* item -> locals of its download_single call
    fut,              \* item -> state of its future
    collected,        \* the items whose futures as_completed has yielded
    results,          \* downloader.py:206  the results list
    removed,          \* what cleanup_failed_downloads returned: <<>> before a call
    max_retries,      \* search_engine.py:50  self.max_retries
    smeta,            \* search: the descriptor searched for
    spc,              \* search: position of the call
    calls,            \* the calls made to the search collaborator, in order
    sresults,         \* search_engine.py:72  results of the current attempt
    all_results,      \* search_engine.py:67  the best match of each attempt
    sret,             \* what search returned: <<>> for None, <<candidate>>
    slast,            \* how the last search call ended
    scored_any,       \* history: some attempt so far had a result that scored
    seen_scores,      \* history: the scores of the results of all attempts
    tracks,           \* cli.py:351  the descriptors of the collection
    cpc,              \* position of _download_batch
    searched,         \* track -> state of its search: pending, running, done
    cret,             \* what _download_batch returned
    normalize,        \* cli.py:355  the normalize argument of _download_batch
    call,             \* a call of a pure function: its name and arguments
    ret,              \* the values the calls made so far returned
    client_max_retries, \* spotify_client.py:177  self.max_retries
    retry_delay,      \* spotify_client.py:178  self.retry_delay
    apc,              \* position of _make_api_call
    attempt,          \* spotify_client.py:237  the loop variable
    outcomes,         \* how each call of the wrapped function ended, in order
    slept,            \* the arguments of the time.sleep calls, in order
    aout              \* what _make_api_call returned or raised

jobVars == <<download_status, heap, pc, loc, issued, resp>>

batchVars == <<max_workers, items, files, bpc, queue, dpc, dloc, fut, collected, results,
               removed>>

searchVars == <<max_retries, smeta, spc, calls, sresults, all_results, sret,
                slast, scored_any, seen_scores>>

cliVars == <<tracks, cpc, searched, cret, normalize>>

fnVars == <<call, ret>>

apiVars == <<client_max_retries, retry_delay, apc, attempt, outcomes, slept, aout>>

vars == <<download_status, heap, pc, loc, issued, resp,
          max_workers, items, files, bpc, queue, dpc, dloc, fut, collected,
          results, removed, max_retries, smeta, spc, calls, sresults, all_results,
          sret, slast, scored_any, seen_scores, tracks, cpc, searched, cret, normalize,
          call, ret,
          client_max_retries, retry_delay, apc, attempt, outcomes, slept, aout>>

(***************************************************************************)
(* Bounds.                                                                 *)
(***************************************************************************)
MaxJobs == 1

NItems == 2

MaxWorkers == 2

JobIds == 1..MaxJobs

\* Readers do not interact with each other: one poller stands for all.
Readers == {"r1"}

None == "None"

(***************************************************************************)
(* Part I: src/app.py                                                      *)
(***************************************************************************)

\* data.url.strip() of the request: empty or a url.
Urls == {"", "https://open.spotify.com/track/t1"}

\* app.py:98-104, the record a job is created with.
InitialRecordBadProgress ==
    [status |-> "starting", progress |-> 10, message |-> "Initializing...",
     file_path |-> None, error |-> None]

InitialRecord ==
    [status |-> "starting", progress |-> 0, message |-> "Initializing...",
     file_path |-> None, error |-> None]

\* The statements of process_download that store a constant into one key of
\* the job's dict: line -> <<key, value, next line>>.
ConstWrites ==
    [l120 |-> <<"status", "authenticating", "l121">>,
     l121 |-> <<"message", "Connecting to Spotify...", "l122">>,
     l122 |-> <<"progress", 10, "l125">>,
     l126 |-> <<"status", "error", "l127">>,
     l127 |-> <<"error", "Failed to authenticate with Spotify", "done">>,
     l130 |-> <<"status", "fetching", "l131">>,
     l131 |-> <<"message", "Fetching track metadata...", "l132">>,
     l132 |-> <<"progress", 20, "l134">>,
     l136 |-> <<"status", "error", "l137">>,
     l137 |-> <<"error", "Could not fetch track information", "done">>,
     l140 |-> <<"status", "searching", "l141">>,
     l141 |-> <<"message", "Searching for audio source...", "l142">>,
     l142 |-> <<"progress", 40, "l145">>,
     l148 |-> <<"status", "error", "l149">>,
     l149 |-> <<"error", "Could not find a matching audio source", "done">>,
     l152 |-> <<"status", "downloading", "l153">>,
     l153 |-> <<"message", "Downloading audio...", "l154">>,
     l154 |-> <<"progress", 60, "l157">>,
     l160 |-> <<"status", "error", "l161">>,
     l164 |-> <<"status", "processing", "l165">>,
     l165 |-> <<"message", "Adding metadata and album art...", "l166">>,
     l166 |-> <<"progress", 85, "l169">>,
     l171 |-> <<"status", "complete", "l172">>,
     l172 |-> <<"message", "Download complete!", "l173">>,
     l173 |-> <<"progress", 100, "l174">>,
     l179 |-> <<"status", "error", "l180">>]

ConstWriteLines == DOMAIN ConstWrites

\* Where control goes when a statement inside the try block raises
\* (app.py:177, except Exception).
OnRaiseUncaught == "done"

OnRaise == "l179"

\* str(e) of the exceptions a collaborator may raise.
ExcMsgs == {"", "connection reset"}

Traceback == "Traceback (most recent call last): ..."

\* The DownloadResult values download_single hands to process_download
\* (downloader.py:99-103, 133-138, 151-156, 161-166, 168-174, 177-189):
\* success with the canonical path, or failure with an error text, which is
\* str(e) in the last case and may be empty.
JobPath == "downloads/Artist - Name.mp3"

DownloadResults ==
    {[success |-> TRUE, file_path |-> JobPath, error |-> None],
     [success |-> FALSE, file_path |-> None, error |-> "Download timed out"],
     [success |-> FALSE, file_path |-> None, error |-> ""]}

\* The locals of a thread before they are bound.
NoLocals ==
    [result |-> [success |-> FALSE, file_path |-> None, error |-> None],
     e |-> None, metadata |-> <<>>, search_result |-> <<>>]

\* What get_track and search return to a job when they return an object.
JobMetadata == [artist |-> "Artist", name |-> "Name"]

JobSearchResult == [url |-> "https://www.youtube.com/watch?v=v1"]

\* Python truthiness of an Optional[str].
Falsy(v) == v = None \/ v = ""

\* x or y
OrElse(x, y) == IF Falsy(x) THEN y ELSE x

Rec(j) == heap[download_status[j]]

SetKey(j, key, value) ==
    heap' = [heap EXCEPT ![download_status[j]] =
                [k \in DOMAIN @ \cup {key} |-> IF k = key THEN value ELSE @[k]]]

Goto(j, l) == pc' = [pc EXCEPT ![j] = l]

Raise(j) ==
    \E m \in ExcMsgs :
        /\ pc' = [pc EXCEPT ![j] = OnRaise]
        /\ loc' = [loc EXCEPT ![j].e = m]

(* download_track, app.py:89-115 *)
download_track(url) ==
    IF url = ""
    THEN UNCHANGED vars                       \* 400, nothing is created
    ELSE \E id \in JobIds \ DOMAIN download_status :   \* uuid4: a fresh id
           LET a == Cardinality(DOMAIN heap) + 1 IN
           /\ heap' = (a :> InitialRecord) @@ heap
           /\ download_status' = (id :> a) @@ download_status
           /\ pc' = [pc EXCEPT ![id] = "l120"]   \* thread.start()
           /\ issued' = issued \cup {id}
           /\ UNCHANGED <<loc, resp>>
           /\ UNCHANGED <<batchVars, searchVars, cliVars, fnVars, apiVars>>

(* process_download, app.py:120-122, 126-127, ..., 171-173, 179 *)
WriteConst(j) ==
    /\ pc[j] \in ConstWriteLines
    /\ LET w == ConstWrites[pc[j]] IN
         /\ SetKey(j, w[1], w[2])
         /\ Goto(j, w[3])
    /\ UNCHANGED <<download_status, loc, issued, resp>>
    /\ UNCHANGED <<batchVars, searchVars, cliVars, fnVars, apiVars>>

(* app.py:124-125 *)
Authenticate(j) ==
    /\ pc[j] = "l125"
    /\ \/ Goto(j, "l130") /\ UNCHANGED loc      \* authenticate() is True
       \/ Goto(j, "l126") /\ UNCHANGED loc      \* authenticate() is False
       \/ Raise(j)
    /\ UNCHANGED <<download_status, heap, issued, resp>>
    /\ UNCHANGED <<batchVars, searchVars, cliVars, fnVars, apiVars>>

(* app.py:134-135 *)
GetTrack(j) ==
    /\ pc[j] = "l134"
    /\ \/ /\ Goto(j, "l140")                    \* a TrackMetadata
          /\ loc' = [loc EXCEPT ![j].metadata = <<JobMetadata>>]
       \/ Goto(j, "l136") /\ UNCHANGED loc      \* None
       \/ Raise(j)
    /\ UNCHANGED <<download_status, heap, issued, resp>>
    /\ UNCHANGED <<batchVars, searchVars, cliVars, fnVars, apiVars>>

\* Lines 145-147 without the test of the search result.
SearchUnchecked(j) ==
    /\ pc[j] = "l145"
    /\ \/ /\ Goto(j, "l152")
          /\ \E r \in {<<>>, <<JobSearchResult>>} :
                loc' = [loc EXCEPT ![j].search_result = r]
       \/ Raise(j)
    /\ UNCHANGED <<download_status, heap, issued, resp>>
    /\ UNCHANGED <<batchVars, searchVars, cliVars, fnVars, apiVars>>

(* app.py:144-147 *)
Search(j) ==
    /\ pc[j] = "l145"
    /\ \/ /\ Goto(j, "l152")                    \* a SearchResult
          /\ loc' = [loc EXCEPT ![j].search_result = <<JobSearchResult>>]
       \/ Goto(j, "l148") /\ UNCHANGED loc      \* None
       \/ Raise(j)
    /\ UNCHANGED <<download_status, heap, issued, resp>>
    /\ UNCHANGED <<batchVars, searchVars, cliVars, fnVars, apiVars>>

(* app.py:156-159 *)
DownloadSingleCall(j) ==
    /\ pc[j] = "l157"
    /\ \/ \E r \in DownloadResults :
            /\ loc' = [loc EXCEPT ![j].result = r]
            /\ Goto(j, IF ~r.success \/ Falsy(r.file_path) THEN "l160" ELSE "l164")
       \/ Raise(j)
    /\ UNCHANGED <<download_status, heap, issued, resp>>
    /\ UNCHANGED <<batchVars, searchVars, cliVars, fnVars, apiVars>>

\* Line 161 without its fallback text: error = result.error.
WriteDownloadErrorRaw(j) ==
    /\ pc[j] = "l161"
    /\ SetKey(j, "error", loc[j].result.error)
    /\ Goto(j, "done")
    /\ UNCHANGED <<download_status, loc, issued, resp>>
    /\ UNCHANGED <<batchVars, searchVars, cliVars, fnVars, apiVars>>

(* app.py:161-162 *)
WriteDownloadError(j) ==
    /\ pc[j] = "l161"
    /\ SetKey(j, "error", OrElse(loc[j].result.error, "Download failed"))
    /\ Goto(j, "done")
    /\ UNCHANGED <<download_status, loc, issued, resp>>
    /\ UNCHANGED <<batchVars, searchVars, cliVars, fnVars, apiVars>>

(* app.py:168-169 *)
EmbedMetadata(j) ==
    /\ pc[j] = "l169"
    /\ \/ Goto(j, "l171") /\ UNCHANGED loc
       \/ Raise(j)
    /\ UNCHANGED <<download_status, heap, issued, resp>>
    /\ UNCHANGED <<batchVars, searchVars, cliVars, fnVars, apiVars>>

(* app.py:174 *)
WriteFilePath(j) ==
    /\ pc[j] = "l174"
    /\ SetKey(j, "file_path", loc[j].result.file_path)
    /\ Goto(j, "l175")
    /\ UNCHANGED <<download_status, loc, issued, resp>>
    /\ UNCHANGED <<batchVars, searchVars, cliVars, fnVars, apiVars>>

\* Line 175 with a filename property that can raise after the stage is
\* already complete.
WriteFilenameRaises(j) ==
    /\ pc[j] = "l175"
    /\ \/ /\ SetKey(j, "filename", "Artist - Name.mp3")
          /\ Goto(j, "done")
          /\ UNCHANGED loc
       \/ Raise(j) /\ UNCHANGED heap
    /\ UNCHANGED <<download_status, issued, resp>>
    /\ UNCHANGED <<batchVars, searchVars, cliVars, fnVars, apiVars>>

(* app.py:175 *)
WriteFilename(j) ==
    /\ pc[j] = "l175"
    /\ SetKey(j, "filename", "Artist - Name.mp3")
    /\ Goto(j, "done")
    /\ UNCHANGED <<download_status, loc, issued, resp>>
    /\ UNCHANGED <<batchVars, searchVars, cliVars, fnVars, apiVars>>

(* app.py:180 *)
WriteException(j) ==
    /\ pc[j] = "l180"
    /\ SetKey(j, "error", loc[j].e \o " | " \o Traceback)
    /\ Goto(j, "done")
    /\ UNCHANGED <<download_status, loc, issued, resp>>
    /\ UNCHANGED <<batchVars, searchVars, cliVars, fnVars, apiVars>>

process_download(j) ==
    \/ WriteConst(j)
    \/ Authenticate(j)
    \/ GetTrack(j)
    \/ Search(j)
    \/ DownloadSingleCall(j)
    \/ WriteDownloadError(j)
    \/ EmbedMetadata(j)
    \/ WriteFilePath(j)
    \/ WriteFilename(j)
    \/ WriteException(j)

(* get_status, app.py:183-189: the handler returns the dict object itself.  *)
(* ref is that object; seen is what it held when the handler returned.      *)
get_status(r, id) ==
    /\ resp' = [resp EXCEPT ![r] =
                  IF id \notin DOMAIN download_status
                  THEN [kind |-> "notfound", id |-> id]
                  ELSE [kind |-> "status", id |-> id,
                        ref |-> download_status[id], seen |-> Rec(id)]]
    /\ UNCHANGED <<download_status, heap, pc, loc, issued>>
    /\ UNCHANGED <<batchVars, searchVars, cliVars, fnVars, apiVars>>

(* get_file, app.py:192-210; whether the file is still on disk is up to the  *)
(* file system                                                              *)
get_file(r, id) ==
    /\ \E on_disk \in BOOLEAN :
         resp' = [resp EXCEPT ![r] =
                  IF id \notin DOMAIN download_status
                  THEN [kind |-> "notfound", id |-> id]
                  ELSE IF Rec(id).status # "complete" \/ Falsy(Rec(id).file_path)
                  THEN [kind |-> "notready", id |-> id]
                  ELSE IF ~on_disk
                  THEN [kind |-> "filemissing", id |-> id]
                  ELSE [kind |-> "file", id |-> id, path |-> Rec(id).file_path]]
    /\ UNCHANGED <<download_status, heap, pc, loc, issued>>
    /\ UNCHANGED <<batchVars, searchVars, cliVars, fnVars, apiVars>>

InitJobs ==
    /\ download_status = <<>>
    /\ heap = <<>>
    /\ pc = [j \in JobIds |-> "unborn"]
    /\ loc = [j \in JobIds |-> NoLocals]
    /\ issued = {}
    /\ resp = [r \in Readers |-> [kind |-> "none"]]

JobNext ==
    \/ \E url \in Urls : download_track(url)
    \/ \E j \in JobIds : process_download(j)
    \/ \E r \in Readers, id \in JobIds : get_status(r, id)
    \/ \E r \in Readers, id \in JobIds : get_file(r, id)

(***************************************************************************)
(* Properties of Part I.                                                   *)
(***************************************************************************)

\* The canonical stages in order and what each transition is to record.
Stages ==
    <<"starting", "authenticating", "fetching", "searching", "downloading",
      "processing", "complete">>

StageMessage ==
    [starting |-> "Initializing...",
     authenticating |-> "Connecting to Spotify...",
     fetching |-> "Fetching track metadata...",
     searching |-> "Searching for audio source...",
     downloading |-> "Downloading audio...",
     processing |-> "Adding metadata and album art...",
     complete |-> "Download complete!"]

StageProgress ==
    [starting |-> 0, authenticating |-> 10, fetching |-> 20, searching |-> 40,
     downloading |-> 60, processing |-> 85, complete |-> 100]

Canonical == {Stages[i] : i \in 1..Len(Stages)}

Rank(s) == CHOOSE i \in 1..Len(Stages) : Stages[i] = s

Terminal == {"complete", "error"}

\* The stage of job j, "absent" while no record exists.
St(j) == IF j \in DOMAIN download_status THEN Rec(j).status ELSE "absent"

\* The message and the percentage of rec are those of its stage.
Coherent(rec) ==
    /\ rec.message = StageMessage[rec.status]
    /\ rec.progress = StageProgress[rec.status]

\* The thread of job j is not between the writes of a transition: it has not
\* run yet, it is inside a collaborator call, or it has ended.
Quiescent(j) == pc[j] \in {"l120", "l125", "l134", "l145", "l157", "l169", "done"}

\* C1: whatever get_status hands to a reader, if its stage is a canonical
\* stage then its message and its percentage are those of that stage (never
\* the stage of a new transition with the message or percentage of the
\* previous one).
C1_ReaderNeverSeesTornRecord ==
    \A r \in Readers :
        (resp[r].kind = "status" /\ resp[r].seen.status \in Canonical)
            => Coherent(resp[r].seen)

\* C2: in every state, a record whose stage is complete has its file_path set.
C2_CompleteHasFilePath ==
    \A j \in DOMAIN download_status :
        Rec(j).status = "complete" => Rec(j).file_path # None

\* C3: in every state, a record whose stage is error has a non-empty error
\* description.
C3_ErrorHasDescription ==
    \A j \in DOMAIN download_status :
        Rec(j).status = "error" => ~Falsy(Rec(j).error)

\* C4: every step leaves the stage of every job where it is or moves it
\* forward: from no record to starting, from a non-terminal stage to a later
\* canonical stage or to error; complete and error never change.
C4_StageStep(j) ==
    LET s == St(j)
        t == St(j)'
    IN  \/ t = s
        \/ s = "absent" /\ t = "starting"
        \/ /\ s \in Canonical \ Terminal
           /\ \/ t = "error"
              \/ t \in Canonical /\ Rank(t) > Rank(s)

C4_StagesMonotonic == [][\A j \in JobIds : C4_StageStep(j)]_vars

\* C4 witness: a job went through every canonical stage and is complete.
C4_Witness == \E j \in JobIds : St(j) = "complete" /\ pc[j] = "done"

\* C5: under fair scheduling of the worker threads, every accepted job
\* eventually is in stage complete or error.
C5_EveryJobTerminates ==
    \A j \in JobIds : (j \in issued) ~> (St(j) \in Terminal)

\* C5 witness: a job whose collaborator raised has ended in stage error.
C5_Witness ==
    \E j \in JobIds :
        /\ j \in issued
        /\ pc[j] = "done"
        /\ loc[j].e # None
        /\ St(j) = "error"

\* C6 as claimed: once the writes of a transition are finished, the message
\* (and for a canonical stage the percentage) is that of the current stage,
\* the error stage included: no message of another stage is left over.
C6_MessageMatchesStage ==
    \A j \in DOMAIN download_status :
        Quiescent(j) =>
            IF Rec(j).status \in Canonical
            THEN Coherent(Rec(j))
            ELSE \A s \in Canonical : Rec(j).message # StageMessage[s]

\* C6 amended: once the writes of a transition are finished, a record in a
\* canonical stage has the message and percentage of that stage, and a
\* record in stage error has a non-empty error description while its message
\* and percentage are still those of one non-terminal stage after starting
\* (the stage the job failed in).
C6_MessageMatchesStageExceptError ==
    \A j \in DOMAIN download_status :
        Quiescent(j) =>
            IF Rec(j).status \in Canonical
            THEN Coherent(Rec(j))
            ELSE /\ Rec(j).status = "error"
                 /\ ~Falsy(Rec(j).error)
                 /\ \E s \in Canonical \ {"starting", "complete"} :
                        /\ Rec(j).message = StageMessage[s]
                        /\ Rec(j).progress = StageProgress[s]

\* C6 witness: a failed download, all writes done.
C6_Witness ==
    \E j \in DOMAIN download_status :
        /\ pc[j] = "done"
        /\ Rec(j).status = "error"
        /\ Rec(j).message = "Downloading audio..."
        /\ Rec(j).error = "Download failed"

\* C7: a record comes into being only by download_track, as the starting
\* record and with its thread not yet run; no step removes a record; and a
\* get_status call answers NotFound exactly when the id it is asked for has
\* not been issued by a submit.
C7_Step ==
    /\ \A j \in JobIds :
          (j \notin DOMAIN download_status /\ j \in DOMAIN download_status')
              => /\ Rec(j)' = [status |-> "starting", progress |-> 0,
                               message |-> "Initializing...",
                               file_path |-> None, error |-> None]
                 /\ pc[j] = "unborn" /\ pc'[j] = "l120"
                 /\ j \notin issued /\ j \in issued'
    /\ \A j \in DOMAIN download_status : j \in DOMAIN download_status'
    /\ \A r \in Readers :
          (resp'[r] # resp[r] /\ resp'[r].kind \in {"notfound", "status"})
              => (resp'[r].kind = "notfound" <=> resp'[r].id \notin issued)

C7_CreatedStartingNeverDeleted == [][C7_Step]_vars

\* C7 witness: a reader was answered NotFound for an id that was issued
\* afterwards, and the job of that id has its record.
C7_Witness ==
    \E r \in Readers :
        /\ resp[r].kind = "notfound"
        /\ resp[r].id \in issued
        /\ pc[resp[r].id] = "l120"

\* C8: what get_status returned to a reader is still what it was when it was
\* returned.
C8_ReaderHoldsCopy ==
    \A r \in Readers :
        resp[r].kind = "status" => heap[resp[r].ref] = resp[r].seen

\* The lines of process_download at which a collaborator is called.
CallLines == {"l125", "l134", "l145", "l157", "l169"}

\* The lines a job is at after a step has failed, until its thread ends.
FailLines == {"l126", "l127", "l136", "l137", "l148", "l149", "l160", "l161",
              "l179", "l180"}

C33_Order ==
    \A j \in DOMAIN download_status :
        /\ pc[j] = "l145" => loc[j].metadata # <<>>
        /\ pc[j] = "l157" =>
               /\ Rec(j).status = "downloading"
               /\ loc[j].metadata # <<>>
               /\ loc[j].search_result # <<>>
        /\ pc[j] = "l169" =>
               /\ loc[j].result.success
               /\ loc[j].result.file_path \notin {None, ""}
        /\ Rec(j).status = "error" => pc[j] \notin CallLines

C33_AfterFailure ==
    \A j \in JobIds :
        /\ pc[j] \in FailLines => pc'[j] \in FailLines \cup {"done"}
        /\ pc[j] = "done" => pc'[j] = "done"

\* C33: a job searches only with a descriptor the catalog returned, calls
\* download_single only in stage downloading and with the candidate the
\* search returned, embeds tags only after a successful result with a path,
\* and calls no collaborator once a step has failed.
C33_CollaboratorsInOrder == []C33_Order /\ [][C33_AfterFailure]_vars

\* A job is about to embed tags, after get_track, search and download_single
\* have each returned what the next step needs.
C33_Witness ==
    \E j \in DOMAIN download_status :
        /\ pc[j] = "l169"
        /\ Rec(j).status = "processing"
        /\ loc[j].metadata = <<JobMetadata>>
        /\ loc[j].search_result = <<JobSearchResult>>
        /\ loc[j].result.success

(***************************************************************************)
(* Part II: src/src/spotify_downloader/downloader.py                       *)
(***************************************************************************)

\* Downloader.__init__ defaults.
MinFileSize == 500000

MinBitrate == 128

ItemIds == 1..NItems

Min(a, b) == IF a < b THEN a ELSE b

\* c.isalnum() or c in " -_", for the characters the descriptors use.
KeptChars == "abcdefghijklmnopqrstuvwxyzABCDEFGHIJKLMNOPQRSTUVWXYZ0123456789 -_"

RECURSIVE Contains(_, _)
Contains(str, c) ==
    IF str = "" THEN FALSE
    ELSE IF Head(str) = c THEN TRUE ELSE Contains(Tail(str), c)

RECURSIVE KeepSafe(_)
KeepSafe(str) ==
    IF str = "" THEN ""
    ELSE IF Contains(KeptChars, Head(str))
         THEN Head(str) \o KeepSafe(Tail(str))
         ELSE KeepSafe(Tail(str))

RECURSIVE Strip(_)
Strip(str) ==
    IF str = "" THEN ""
    ELSE IF Head(str) = " " THEN Strip(Tail(str))
    ELSE IF SubSeq(str, Len(str), Len(str)) = " "
         THEN Strip(SubSeq(str, 1, Len(str) - 1))
         ELSE str

\* TrackMetadata.filename, spotify_client.py:143-148
filename(meta) == Strip(KeepSafe(meta.artist)) \o " - " \o Strip(KeepSafe(meta.name))

\* downloader.py:94
final_path(meta) == filename(meta) \o ".mp3"

\* metadata.filename[:20], downloader.py:143
filename_prefix(meta) == SubSeq(filename(meta), 1, Min(20, Len(filename(meta))))

StartsWith(str, prefix) ==
    Len(str) >= Len(prefix) /\ SubSeq(str, 1, Len(prefix)) = prefix

EndsWith(str, suffix) ==
    Len(str) >= Len(suffix)
        /\ SubSeq(str, Len(str) - Len(suffix) + 1, Len(str)) = suffix


\* The tracks of the collection the batches considered are taken from: two
\* whose names differ only in a character the filename drops, and a third of
\* the same artist, whose filename starts with the same 20 characters.
Tracks ==
    <<[track_id |-> "t1", artist |-> "The Long Name Band", name |-> "Song"],
      [track_id |-> "t2", artist |-> "The Long Name Band", name |-> "Song?"],
      [track_id |-> "t3", artist |-> "The Long Name Band", name |-> "Tune"]>>

Descriptors == {Tracks[k] : k \in 1..Len(Tracks)}

\* The properties above, evaluated once for each descriptor.
Filename == [d \in Descriptors |-> filename(d)]

FinalPath == [d \in Descriptors |-> final_path(d)]

Prefix20 == [d \in Descriptors |-> filename_prefix(d)]

\* What the fetch collaborator can leave at a path: the candidate it was
\* fetched from, its size in bytes and the bitrate _get_bitrate measures.
Good(src) == [src |-> src, size |-> 4000000, bitrate |-> 192]

TooSmall(src) == [src |-> src, size |-> 1000, bitrate |-> 192]

LowBitrate(src) == [src |-> src, size |-> 4000000, bitrate |-> 96]

Exists(path) == path \in DOMAIN files

Without(fs, path) == [n \in DOMAIN fs \ {path} |-> fs[n]]

With(fs, path, content) == [n \in DOMAIN fs \cup {path} |->
                              IF n = path THEN content ELSE fs[n]]

\* _validate_file_detailed, downloader.py:267-289: (is_valid, file_size, bitrate)
_validate_file_detailed(path) ==
    IF ~Exists(path) THEN <<FALSE, 0, 0>>          \* getsize raises
    ELSE IF files[path].size < MinFileSize THEN <<FALSE, files[path].size, 0>>
    ELSE IF files[path].bitrate < MinBitrate
         THEN <<FALSE, files[path].size, files[path].bitrate>>
         ELSE <<TRUE, files[path].size, files[path].bitrate>>

\* _validate_file, downloader.py:254-265
_validate_file(path) == _validate_file_detailed(path)[1]

\* downloader.py:283-286: the decision once the bitrate is known
Decide(file_size, bitrate) ==
    IF bitrate < MinBitrate THEN <<FALSE, file_size, bitrate>>
    ELSE <<TRUE, file_size, bitrate>>

\* The positions of a thread inside the _validate_file_detailed called at
\* line site of download_single: its os.path.getsize (278), the first probe
\* of _get_bitrate (312), the os.path.getsize (327) and the probe (336) of
\* its second try.
ValidationLines == {"l278", "l312", "l327", "l336"}

PosName == [site \in {"l97", "l158"} |->
              [line \in ValidationLines |->
                  IF line = "l278" THEN site ELSE site \o "_" \o line]]

Pos(site, line) == PosName[site][line]

ValidationPositions(site) == {PosName[site][line] : line \in ValidationLines}

\* One system call of _validate_file_detailed(path) by a thread at position
\* Pos(site, line) whose locals are d, on the directory as it is at that
\* moment: the line the thread goes to and its locals there, or "return"
\* and the value returned. A file that is there answers the first probe with
\* its bitrate; for one that is not, both probes fail, getsize raises, and
\* _get_bitrate returns 192. The second probe gives the duration of the file
\* it finds, size * 8 / bitrate, which line 346 divides the size read at
\* line 327 by.
ValidateStep(path, line, d) ==
    LET Go(l, size, size2) ==
            [line |-> l, v |-> <<FALSE, 0, 0>>, file_size |-> size, file_size2 |-> size2]
        Done(v) == [line |-> "return", v |-> v, file_size |-> 0, file_size2 |-> 0]
    IN
    CASE line = "l278" ->
            IF ~Exists(path) THEN Done(<<FALSE, 0, 0>>)
            ELSE IF files[path].size < MinFileSize
                 THEN Done(<<FALSE, files[path].size, 0>>)
                 ELSE Go("l312", files[path].size, 0)
      [] line = "l312" ->
            IF Exists(path) THEN Done(Decide(d.file_size, files[path].bitrate))
            ELSE Go("l327", d.file_size, 0)
      [] line = "l327" ->
            IF ~Exists(path) THEN Done(Decide(d.file_size, 192))
            ELSE Go("l336", d.file_size, files[path].size)
      [] line = "l336" ->
            IF ~Exists(path) THEN Done(Decide(d.file_size, 192))
            ELSE Done(Decide(d.file_size,
                     (d.file_size2 * files[path].bitrate) \div files[path].size))

\* DownloadResult, downloader.py:29-37
DownloadResult(success, path, meta, error, size, bitrate) ==
    [success |-> success, file_path |-> path, metadata |-> meta,
     error |-> error, file_size |-> size, bitrate |-> bitrate]

\* A failed result that keeps the path the call worked on.
FailureKeepsPath(meta, error) ==
    DownloadResult(FALSE, FinalPath[meta], meta, error, 0, 0)

Failure(meta, error) == DownloadResult(FALSE, None, meta, error, 0, 0)

\* old_path, the value of _validate_file_detailed at line 158, the number of
\* times the call has run the fetch collaborator and how its run ended;
\* file_size of the _validate_file_detailed and of the _get_bitrate the call
\* is in, 0 outside of them.
NoDLocals == [old |-> None, v |-> <<FALSE, 0, 0>>, fetches |-> 0, exit |-> "none",
              file_size |-> 0, file_size2 |-> 0]

Meta(i) == items[i].meta

At(i, l) == dpc' = [dpc EXCEPT ![i] = l]

\* download_single returns: the future of the item gets its result.
Return(i, result) ==
    /\ dpc' = [dpc EXCEPT ![i] = "finished"]
    /\ fut' = [fut EXCEPT ![i] = [state |-> "finished", result |-> result]]

\* download_single raises: the future of the item gets the exception.
Propagate(i, msg) ==
    /\ dpc' = [dpc EXCEPT ![i] = "finished"]
    /\ fut' = [fut EXCEPT ![i] = [state |-> "finished", exception |-> msg]]

(* download_single, downloader.py:90-96 *)
DS_Exists(i) ==
    /\ dpc[i] = "l96"
    /\ At(i, IF Exists(FinalPath[Meta(i)]) THEN "l97" ELSE "l125")
    /\ UNCHANGED <<max_workers, removed, items, files, bpc, queue, dloc, fut, collected, results>>
    /\ UNCHANGED <<jobVars, searchVars, cliVars, fnVars, apiVars>>

\* The call without its idempotency check: an existing file is fetched again.
DS_ValidateExistingRefetch(i) ==
    /\ dpc[i] = "l97"
    /\ At(i, "l125")
    /\ UNCHANGED <<max_workers, removed, items, files, bpc, queue, dloc, fut, collected, results>>
    /\ UNCHANGED <<jobVars, searchVars, cliVars, fnVars, apiVars>>

(* downloader.py:97-103: one system call of _validate_file(final_path), and *)
(* what follows it up to the next one                                      *)
DS_ValidateExisting(i) ==
    /\ \E line \in ValidationLines :
          /\ dpc[i] = Pos("l97", line)
          /\ LET step == ValidateStep(FinalPath[Meta(i)], line, dloc[i]) IN
             /\ dloc' = [dloc EXCEPT ![i].file_size = step.file_size,
                                     ![i].file_size2 = step.file_size2]
             /\ IF step.line # "return"
                THEN At(i, Pos("l97", step.line)) /\ UNCHANGED fut
                ELSE IF step.v[1]
                THEN Return(i, DownloadResult(TRUE, FinalPath[Meta(i)], Meta(i),
                                              None, 0, 0))
                ELSE At(i, "l105") /\ UNCHANGED fut
    /\ UNCHANGED <<max_workers, removed, items, files, bpc, queue, collected, results>>
    /\ UNCHANGED <<jobVars, searchVars, cliVars, fnVars, apiVars>>

(* downloader.py:105; outside the try block *)
DS_RemoveInvalid(i) ==
    /\ dpc[i] = "l105"
    /\ IF Exists(FinalPath[Meta(i)])
       THEN /\ files' = Without(files, FinalPath[Meta(i)])
            /\ At(i, "l125")
            /\ UNCHANGED fut
       ELSE /\ Propagate(i, "FileNotFoundError")
            /\ UNCHANGED files
    /\ UNCHANGED <<max_workers, removed, items, bpc, queue, dloc, collected, results>>
    /\ UNCHANGED <<jobVars, searchVars, cliVars, fnVars, apiVars>>

\* The names the fetch collaborator may write for a descriptor: the canonical
\* path, an mp3 under another name, or a part file it did not finish.
AltName(meta) == Filename[meta] \o ".f140.mp3"

PartName(meta) == Filename[meta] \o ".webm.part"

\* subprocess.run has been called once more and ended as kind says.
Ran(i, kind) == dloc' = [dloc EXCEPT ![i].fetches = @ + 1, ![i].exit = kind]

(* downloader.py:108-138 and 176-182: subprocess.run of the fetch collaborator *)
DS_Fetch(i) ==
    /\ dpc[i] = "l125"
    /\ LET m == Meta(i)
           c == items[i].sr
       IN
       \/ \E content \in {Good(c), TooSmall(c), LowBitrate(c)} :  \* exit 0
             /\ files' = With(files, FinalPath[m], content)
             /\ Ran(i, "ok")
             /\ At(i, "l140") /\ UNCHANGED fut
       \/ /\ files' = With(files, AltName(m), Good(c))             \* exit 0, other name
          /\ Ran(i, "ok")
          /\ At(i, "l140") /\ UNCHANGED fut
       \/ /\ UNCHANGED files                                      \* exit 0, no file
          /\ Ran(i, "ok")
          /\ At(i, "l140") /\ UNCHANGED fut
       \/ /\ UNCHANGED files                                   \* nonzero exit
          /\ Ran(i, "nonzero")
          /\ Return(i, Failure(m, "Download failed: ERROR"))
       \/ /\ files' = With(files, PartName(m), TooSmall(c))        \* TimeoutExpired
          /\ Ran(i, "timeout")
          /\ Return(i, Failure(m, "Download timed out"))
    /\ UNCHANGED <<max_workers, removed, items, bpc, queue, collected, results>>
    /\ UNCHANGED <<jobVars, searchVars, cliVars, fnVars, apiVars>>

(* downloader.py:140: os.path.exists(final_path) *)
DS_CheckFinal(i) ==
    /\ dpc[i] = "l140"
    /\ At(i, IF Exists(FinalPath[Meta(i)]) THEN "l150" ELSE "l142")
    /\ UNCHANGED <<max_workers, removed, items, files, bpc, queue, dloc, fut, collected, results>>
    /\ UNCHANGED <<jobVars, searchVars, cliVars, fnVars, apiVars>>

(* downloader.py:141-147: os.listdir of the directory as it is now;        *)
(* possible_files[0] in the order listdir gives                            *)
DS_Locate(i) ==
    /\ dpc[i] = "l142"
    /\ LET possible_files == {n \in DOMAIN files : StartsWith(n, Prefix20[Meta(i)])}
       IN
       IF possible_files = {}
       THEN At(i, "l150") /\ UNCHANGED dloc
       ELSE \E first \in possible_files :
              IF EndsWith(first, ".mp3")
              THEN At(i, "l148") /\ dloc' = [dloc EXCEPT ![i].old = first]
              ELSE At(i, "l150") /\ UNCHANGED dloc
    /\ UNCHANGED <<max_workers, removed, items, files, bpc, queue, fut, collected, results>>
    /\ UNCHANGED <<jobVars, searchVars, cliVars, fnVars, apiVars>>

(* downloader.py:148 and 183-189: os.rename replaces an existing target on  *)
(* POSIX and raises on Windows                                              *)
DS_Rename(i) ==
    /\ dpc[i] = "l148"
    /\ LET old == dloc[i].old
           final == FinalPath[Meta(i)]
       IN
       IF ~Exists(old)
       THEN Return(i, Failure(Meta(i), "FileNotFoundError")) /\ UNCHANGED files
       ELSE \/ /\ files' = With(Without(files, old), final, files[old])
               /\ At(i, "l150") /\ UNCHANGED fut
            \/ /\ Exists(final) /\ old # final
               /\ Return(i, Failure(Meta(i), "FileExistsError"))
               /\ UNCHANGED files
    /\ UNCHANGED <<max_workers, removed, items, bpc, queue, dloc, collected, results>>
    /\ UNCHANGED <<jobVars, searchVars, cliVars, fnVars, apiVars>>

\* The missing output reported with the text of a validation failure.
DS_CheckOutputMisreports(i) ==
    /\ dpc[i] = "l150"
    /\ IF Exists(FinalPath[Meta(i)])
       THEN At(i, "l158") /\ UNCHANGED fut
       ELSE Return(i, Failure(Meta(i),
                "File validation failed (size: 0, bitrate: 0)"))
    /\ UNCHANGED <<max_workers, removed, items, files, bpc, queue, dloc, collected, results>>
    /\ UNCHANGED <<jobVars, searchVars, cliVars, fnVars, apiVars>>

(* downloader.py:150-156 *)
DS_CheckOutput(i) ==
    /\ dpc[i] = "l150"
    /\ IF Exists(FinalPath[Meta(i)])
       THEN At(i, "l158") /\ UNCHANGED fut
       ELSE Return(i, Failure(Meta(i), "Output file not found after download"))
    /\ UNCHANGED <<max_workers, removed, items, files, bpc, queue, dloc, collected, results>>
    /\ UNCHANGED <<jobVars, searchVars, cliVars, fnVars, apiVars>>

(* downloader.py:158-159 and 168-174: one system call of                   *)
(* _validate_file_detailed(final_path), and what follows it up to the next *)
DS_Validate(i) ==
    /\ \E line \in ValidationLines :
          /\ dpc[i] = Pos("l158", line)
          /\ LET step == ValidateStep(FinalPath[Meta(i)], line, dloc[i])
                 v == step.v
             IN
             /\ dloc' = [dloc EXCEPT ![i].file_size = step.file_size,
                                     ![i].file_size2 = step.file_size2,
                                     ![i].v = IF step.line = "return" /\ ~v[1]
                                              THEN v ELSE @]
             /\ IF step.line # "return"
                THEN At(i, Pos("l158", step.line)) /\ UNCHANGED fut
                ELSE IF v[1]
                THEN Return(i, DownloadResult(TRUE, FinalPath[Meta(i)], Meta(i),
                                              None, v[2], v[3]))
                ELSE At(i, "l160") /\ UNCHANGED fut
    /\ UNCHANGED <<max_workers, removed, items, files, bpc, queue, collected, results>>
    /\ UNCHANGED <<jobVars, searchVars, cliVars, fnVars, apiVars>>

(* downloader.py:160-166 and 183-189 *)
DS_RemoveRejected(i) ==
    /\ dpc[i] = "l160"
    /\ LET final == FinalPath[Meta(i)]
           v == dloc[i].v
       IN
       IF Exists(final)
       THEN /\ files' = Without(files, final)
            /\ Return(i, Failure(Meta(i),
                   "File validation failed (size: " \o ToString(v[2])
                       \o ", bitrate: " \o ToString(v[3]) \o ")"))
       ELSE /\ Return(i, Failure(Meta(i), "FileNotFoundError"))
            /\ UNCHANGED files
    /\ UNCHANGED <<max_workers, removed, items, bpc, queue, dloc, collected, results>>
    /\ UNCHANGED <<jobVars, searchVars, cliVars, fnVars, apiVars>>

download_single(i) ==
    \/ DS_Exists(i)
    \/ DS_ValidateExisting(i)
    \/ DS_RemoveInvalid(i)
    \/ DS_Fetch(i)
    \/ DS_CheckFinal(i)
    \/ DS_Locate(i)
    \/ DS_Rename(i)
    \/ DS_CheckOutput(i)
    \/ DS_Validate(i)
    \/ DS_RemoveRejected(i)

\* The items whose download_single is being executed by a pool thread.
Running == {i \in ItemIds : dpc[i] \notin {"unsubmitted", "queued", "finished"}}

\* ThreadPoolExecutor(max_workers=self.max_workers), downloader.py:219: a
\* pool thread is free to take work while fewer than max_workers are busy.
PoolUnbounded == TRUE

PoolHasFreeThread == Cardinality(Running) < max_workers

(* downloader.py:220-223: executor.submit for the next item of the list *)
Submit ==
    /\ bpc = "submitting"
    /\ LET k == Cardinality({i \in ItemIds : dpc[i] # "unsubmitted"}) + 1 IN
       IF k > Len(items)
       THEN bpc' = "collecting" /\ UNCHANGED <<queue, dpc, fut>>
       ELSE /\ queue' = Append(queue, k)
            /\ dpc' = [dpc EXCEPT ![k] = "queued"]
            /\ fut' = [fut EXCEPT ![k] = [state |-> "pending"]]
            /\ UNCHANGED bpc
    /\ UNCHANGED <<max_workers, removed, items, files, dloc, collected, results>>
    /\ UNCHANGED <<jobVars, searchVars, cliVars, fnVars, apiVars>>

(* a pool thread takes the oldest work item and calls download_single *)
StartWork ==
    /\ queue # <<>>
    /\ PoolHasFreeThread
    /\ dpc' = [dpc EXCEPT ![Head(queue)] = "l96"]
    /\ fut' = [fut EXCEPT ![Head(queue)] = [state |-> "running"]]
    /\ queue' = Tail(queue)
    /\ UNCHANGED <<max_workers, removed, items, files, bpc, dloc, collected, results>>
    /\ UNCHANGED <<jobVars, searchVars, cliVars, fnVars, apiVars>>

\* The loop with each result filed under the descriptor at its position in
\* the list instead of the descriptor of its future.
CollectByPosition ==
    /\ bpc = "collecting"
    /\ \E i \in ItemIds :
          /\ fut[i].state = "finished"
          /\ \A k \in 1..Len(collected) : collected[k] # i
          /\ collected' = Append(collected, i)
          /\ results' = Append(results,
                IF "result" \in DOMAIN fut[i]
                THEN [fut[i].result EXCEPT
                         !.metadata = items[Len(results) + 1].meta]
                ELSE Failure(items[Len(results) + 1].meta, fut[i].exception))
    /\ UNCHANGED <<max_workers, removed, items, files, bpc, queue, dpc, dloc, fut>>
    /\ UNCHANGED <<jobVars, searchVars, cliVars, fnVars, apiVars>>

\* The loop without its except branch: the exception of a future leaves
\* download_batch with the results collected so far lost.
CollectAborts ==
    /\ bpc = "collecting"
    /\ \E i \in ItemIds :
          /\ fut[i].state = "finished"
          /\ \A k \in 1..Len(collected) : collected[k] # i
          /\ IF "result" \in DOMAIN fut[i]
             THEN /\ collected' = Append(collected, i)
                  /\ results' = Append(results, fut[i].result)
                  /\ UNCHANGED bpc
             ELSE /\ bpc' = "returned"
                  /\ UNCHANGED <<collected, results>>
    /\ UNCHANGED <<max_workers, removed, items, files, queue, dpc, dloc, fut>>
    /\ UNCHANGED <<jobVars, searchVars, cliVars, fnVars, apiVars>>

(* downloader.py:225-250: one round of the as_completed loop *)
Collect ==
    /\ bpc = "collecting"
    /\ \E i \in ItemIds :
          /\ fut[i].state = "finished"
          /\ \A k \in 1..Len(collected) : collected[k] # i
          /\ collected' = Append(collected, i)
          /\ results' = Append(results,
                IF "result" \in DOMAIN fut[i]
                THEN fut[i].result
                ELSE Failure(items[i].meta, fut[i].exception))
    /\ UNCHANGED <<max_workers, removed, items, files, bpc, queue, dpc, dloc, fut>>
    /\ UNCHANGED <<jobVars, searchVars, cliVars, fnVars, apiVars>>

(* downloader.py:225 and 252: as_completed is exhausted, the list is returned *)
ReturnResults ==
    /\ bpc = "collecting"
    /\ Len(collected) = Len(items)
    /\ bpc' = "returned"
    /\ UNCHANGED <<max_workers, removed, items, files, queue, dpc, dloc, fut, collected, results>>
    /\ UNCHANGED <<jobVars, searchVars, cliVars, fnVars, apiVars>>

(* cleanup_failed_downloads, downloader.py:353-369, called on the directory *)
(* a batch has left: every file that fails _validate_file is removed, and  *)
(* their number is returned                                                *)
cleanup_failed_downloads ==
    /\ bpc = "returned"
    /\ LET failed == {n \in DOMAIN files : ~_validate_file(n)} IN
       /\ files' = [n \in DOMAIN files \ failed |-> files[n]]
       /\ removed' = <<Cardinality(failed)>>
    /\ UNCHANGED <<max_workers, items, bpc, queue, dpc, dloc, fut, collected, results>>
    /\ UNCHANGED <<jobVars, searchVars, cliVars, fnVars, apiVars>>

\* The candidate the search returned for item i.
Candidate(i) == "https://www.youtube.com/watch?v=" \o ToString(i)

\* The batches considered: NItems tracks of the collection, in its order,
\* and the batch that holds the first track NItems times.
Batches ==
    {[i \in ItemIds |-> [sr |-> Candidate(i), meta |-> Tracks[pick[i]]]] :
        pick \in {f \in [ItemIds -> 1..Len(Tracks)] :
                    \/ \A a, b \in ItemIds : a < b => f[a] < f[b]
                    \/ \A a \in ItemIds : f[a] = 1}}

InitBatch ==
    /\ max_workers \in 1..MaxWorkers
    /\ items \in Batches
    /\ files = <<>>
    /\ bpc = "submitting"
    /\ queue = <<>>
    /\ dpc = [i \in ItemIds |-> "unsubmitted"]
    /\ dloc = [i \in ItemIds |-> NoDLocals]
    /\ fut = [i \in ItemIds |-> [state |-> "none"]]
    /\ collected = <<>>
    /\ results = <<>>
    /\ removed = <<>>

\* Part II at rest, while Part I runs: Downloader.__init__ with its default
\* max_workers, downloader.py:47-71.
IdleBatch ==
    /\ max_workers = 4
    /\ items = <<>>
    /\ files = <<>>
    /\ bpc = "idle"
    /\ queue = <<>>
    /\ dpc = [i \in ItemIds |-> "unsubmitted"]
    /\ dloc = [i \in ItemIds |-> NoDLocals]
    /\ fut = [i \in ItemIds |-> [state |-> "none"]]
    /\ collected = <<>>
    /\ results = <<>>
    /\ removed = <<>>

BatchNext ==
    \/ Submit
    \/ StartWork
    \/ \E i \in ItemIds : download_single(i)
    \/ Collect
    \/ ReturnResults

\* A Downloader: batches, and cleanup_failed_downloads after them.
DownloaderNext ==
    \/ BatchNext
    \/ cleanup_failed_downloads

(***************************************************************************)
(* Properties of Part II.                                                  *)
(***************************************************************************)

\* C9: at no time are more than max_workers calls of download_single being
\* executed.
C9_AtMostMaxWorkersRunning == Cardinality(Running) <= max_workers

\* C9 witness: the pool is full and a submitted item waits for a thread.
C9_Witness ==
    /\ Cardinality(Running) = max_workers
    /\ queue # <<>>
    /\ Len(items) > max_workers

\* C10: as_completed yields no item twice, every result collected carries the
\* descriptor of the item whose future yielded it, and when download_batch
\* returns there is exactly one result for each submitted item.
C10_OneResultPerItem ==
    /\ Len(results) = Len(collected)
    /\ \A k \in 1..Len(collected) :
          /\ results[k].metadata = items[collected[k]].meta
          /\ \A l \in 1..Len(collected) : collected[l] = collected[k] => l = k
    /\ bpc = "returned" =>
          /\ Len(results) = Len(items)
          /\ \A i \in ItemIds : \E k \in 1..Len(collected) : collected[k] = i

\* C10 witness: the batch has returned, the second item was collected before
\* the first, and one item failed while another succeeded.
C10_Witness ==
    /\ bpc = "returned"
    /\ collected[1] = 2
    /\ \E k \in 1..Len(results) : results[k].success
    /\ \E k \in 1..Len(results) : ~results[k].success

\* C11: a failed item never aborts the batch. A future that raised is
\* recorded as a failed result naming the descriptor of its item and the
\* exception, a failed DownloadResult is collected as it was returned, with
\* its descriptor and an error, the batch is never stuck before it returns,
\* and it returns only when every item has run to completion and been
\* collected.
C11_FailureNeverAbortsBatch ==
    /\ \A k \in 1..Len(collected) :
          LET i == collected[k] IN
          /\ "exception" \in DOMAIN fut[i] =>
                results[k] = Failure(items[i].meta, fut[i].exception)
          /\ ("result" \in DOMAIN fut[i] /\ ~fut[i].result.success) =>
                /\ results[k] = fut[i].result
                /\ results[k].metadata = items[i].meta
                /\ results[k].error # None
    /\ bpc \in {"submitting", "collecting"} => ENABLED BatchNext
    /\ bpc = "returned" =>
          \A i \in 1..Len(items) :
             /\ dpc[i] = "finished"
             /\ \E k \in 1..Len(collected) : collected[k] = i

\* C11 witness: the batch has returned, the first result collected is the
\* record of an item whose download_single raised, and the result of another
\* item was collected after it.
C11_Witness ==
    /\ bpc = "returned"
    /\ Len(results) >= 2
    /\ "exception" \in DOMAIN fut[collected[1]]
    /\ ~results[1].success
    /\ results[1].error = "FileNotFoundError"

\* The canonical path of item i.
Final(i) == FinalPath[items[i].meta]

\* The error text of downloader.py:165
ValidationError(size, bitrate) ==
    "File validation failed (size: " \o ToString(size)
        \o ", bitrate: " \o ToString(bitrate) \o ")"

\* C18: when download_single, with no other call running, is validating the
\* artifact it found at the canonical path and the artifact meets both
\* minima, each of its steps leaves the output directory as it was and leads
\* to the next step of validation or to the return of a success with that
\* path, with the fetch collaborator run zero times; so with the calls made
\* one after the other, a second call for the descriptor of a successful
\* first call succeeds without a fetch and the artifact is still the one the
\* first call fetched.
C18_ValidArtifactIsNotFetchedAgain ==
    /\ [][\A i \in ItemIds :
            (/\ dpc[i] \in ValidationPositions("l97")
             /\ dpc'[i] # dpc[i]
             /\ Running = {i}
             /\ Final(i) \in DOMAIN files
             /\ files[Final(i)].size >= MinFileSize
             /\ files[Final(i)].bitrate >= MinBitrate)
            => /\ files' = files
               /\ dloc'[i].fetches = 0
               /\ \/ dpc'[i] \in ValidationPositions("l97")
                  \/ /\ dpc'[i] = "finished"
                     /\ "result" \in DOMAIN fut'[i]
                     /\ fut'[i].result.success
                     /\ fut'[i].result.file_path = Final(i)
                     /\ fut'[i].result.metadata = items[i].meta]_vars
    /\ [](\A a, b \in ItemIds :
            (/\ max_workers = 1
             /\ a < b
             /\ dpc[a] = "finished" /\ dpc[b] = "finished"
             /\ items[a].meta = items[b].meta
             /\ "result" \in DOMAIN fut[a] /\ fut[a].result.success)
            => /\ "result" \in DOMAIN fut[b] /\ fut[b].result.success
               /\ dloc[b].fetches = 0
               /\ files[Final(b)].src # items[b].sr)

\* C18 witness: two calls for the same descriptor, one after the other: the
\* first fetched the artifact and succeeded, the second succeeded without a
\* fetch and the artifact is the one the first call fetched.
C18_Witness ==
    /\ max_workers = 1
    /\ items[1].meta = items[2].meta
    /\ dpc[1] = "finished" /\ dpc[2] = "finished"
    /\ "result" \in DOMAIN fut[1] /\ fut[1].result.success
    /\ dloc[1].fetches = 1
    /\ "result" \in DOMAIN fut[2] /\ fut[2].result.success
    /\ dloc[2].fetches = 0
    /\ files[Final(2)].src = items[1].sr

\* C19: a fetched artifact below the minimum size or the minimum bitrate is
\* deleted before download_single returns and the result is a failure that
\* reports the measured size and bitrate: a call returns success from the
\* validation of its fetch only while an artifact that meets both minima is
\* at the canonical path, and when a call returns after deleting the
\* rejected artifact, the artifact is gone and the error of the failure
\* reports the size of the artifact deleted and its bitrate (0 for an
\* artifact below the minimum size, whose bitrate is not measured).
C19_RejectedArtifactReported ==
    [][\A i \in ItemIds :
         /\ (/\ dpc[i] \in ValidationPositions("l158")
             /\ dpc'[i] = "finished"
             /\ "result" \in DOMAIN fut'[i]
             /\ fut'[i].result.success)
            => /\ Final(i) \in DOMAIN files
               /\ files[Final(i)].size >= MinFileSize
               /\ files[Final(i)].bitrate >= MinBitrate
         /\ (dpc[i] = "l160" /\ dpc'[i] = "finished" /\ Final(i) \in DOMAIN files)
            => /\ Final(i) \notin DOMAIN files'
               /\ "result" \in DOMAIN fut'[i]
               /\ ~fut'[i].result.success
               /\ fut'[i].result.error =
                     ValidationError(files[Final(i)].size,
                        IF files[Final(i)].size < MinFileSize THEN 0
                        ELSE files[Final(i)].bitrate)]_vars

\* C20: after download_single has returned a failure or raised, no file that
\* its fetch wrote is in the output directory.
C20_NoLeftoverAfterFailure ==
    \A i \in 1..Len(items) :
       (/\ dpc[i] = "finished"
        /\ "result" \in DOMAIN fut[i] => ~fut[i].result.success)
       => \A n \in DOMAIN files : files[n].src # items[i].sr

\* C21: every successful result of download_single carries the size and the
\* bitrate of its artifact, at least the minimum each.
C21_SuccessCarriesMetrics ==
    \A i \in 1..Len(items) :
       (dpc[i] = "finished" /\ "result" \in DOMAIN fut[i] /\ fut[i].result.success)
       => /\ fut[i].result.file_size >= MinFileSize
          /\ fut[i].result.bitrate >= MinBitrate

\* C22: a result, of download_single and in the list download_batch builds,
\* carries a path exactly when it is a success, and the path of a success is
\* the canonical path of the descriptor of its item.
C22_PathIffSuccess ==
    /\ \A i \in 1..Len(items) :
          (dpc[i] = "finished" /\ "result" \in DOMAIN fut[i])
          => /\ fut[i].result.success <=> fut[i].result.file_path # None
             /\ fut[i].result.success =>
                   fut[i].result.file_path = FinalPath[items[i].meta]
    /\ \A k \in 1..Len(results) :
          /\ results[k].success <=> results[k].file_path # None
          /\ results[k].success =>
                results[k].file_path = FinalPath[items[collected[k]].meta]

\* C22 witness: download_batch has returned a success with its path, the
\* failure download_single returned for another item and the failure built
\* for an item whose call raised, both without a path.
C22_Witness ==
    /\ bpc = "returned"
    /\ \E k \in 1..Len(results) :
          results[k].success /\ results[k].file_path # None
    /\ \E k \in 1..Len(results) :
          /\ ~results[k].success
          /\ results[k].file_path = None

\* C23: the error of a failed acquisition names the step that failed. A call
\* that returns from the fetch after a nonzero exit reports "Download
\* failed: ...", after a timeout "Download timed out"; a call that returns
\* because no artifact was located reports "Output file not found after
\* download"; a call that returns after rejecting and deleting the artifact
\* reports "File validation failed ..."; the four texts differ, and a result
\* carries the text of a step only when the call returned from that step.
C23_ErrorNamesFailedStep ==
    [][\A i \in ItemIds :
         (dpc[i] # "finished" /\ dpc'[i] = "finished" /\ "result" \in DOMAIN fut'[i]
            /\ ~fut'[i].result.success)
         => LET error == fut'[i].result.error
                fetchFailed == StartsWith(error, "Download failed: ")
                timedOut == error = "Download timed out"
                missing == error = "Output file not found after download"
                validation == StartsWith(error, "File validation failed (size: ")
            IN
            /\ (dpc[i] = "l125" /\ dloc'[i].exit = "nonzero") => fetchFailed
            /\ (dpc[i] = "l125" /\ dloc'[i].exit = "timeout") => timedOut
            /\ dpc[i] = "l150" => missing
            /\ (dpc[i] = "l160" /\ FinalPath[items[i].meta] \in DOMAIN files)
                  => validation
            /\ fetchFailed => dpc[i] = "l125" /\ dloc'[i].exit = "nonzero"
            /\ timedOut => dpc[i] = "l125" /\ dloc'[i].exit = "timeout"
            /\ missing => dpc[i] = "l150" /\ dloc[i].exit = "ok"
            /\ validation => dpc[i] = "l160" /\ dloc[i].exit = "ok" /\ ~dloc[i].v[1]
            /\ Cardinality({x \in {"f", "t", "m", "v"} :
                              \/ x = "f" /\ fetchFailed
                              \/ x = "t" /\ timedOut
                              \/ x = "m" /\ missing
                              \/ x = "v" /\ validation}) <= 1]_vars

\* C23 witness: the two calls of a batch have failed at different steps, one
\* in the fetch and one in validation.
C23_Witness ==
    /\ dpc[1] = "finished" /\ dpc[2] = "finished"
    /\ "result" \in DOMAIN fut[1] /\ "result" \in DOMAIN fut[2]
    /\ fut[1].result.error = "Download timed out"
    /\ StartsWith(fut[2].result.error, "File validation failed")
    /\ dloc[1].exit = "timeout"
    /\ dloc[2].exit = "ok"

\* No two items of the batch have the same filename.
DistinctFilenames ==
    \A a, b \in 1..Len(items) : a # b => Filename[Meta(a)] # Filename[Meta(b)]

\* C34: in a batch whose items have different filenames, the file at an
\* item's canonical path was fetched from that item's own candidate.
C34_ArtifactFromOwnCandidate ==
    DistinctFilenames =>
        \A i \in 1..Len(items) :
            Exists(FinalPath[Meta(i)]) =>
                files[FinalPath[Meta(i)]].src = items[i].sr

\* C35: when download_batch has returned for a batch with two items of one
\* filename, every successful result has its artifact at the reported path.
C35_ReportedArtifactStillThere ==
    (bpc = "returned" /\ removed = <<>> /\ ~DistinctFilenames) =>
        \A n \in 1..Len(results) :
            results[n].success => Exists(results[n].file_path)

(***************************************************************************)
(* Part III: src/src/spotify_downloader/search_engine.py                   *)
(***************************************************************************)

\* SearchEngine.__init__ defaults; scores are in hundredths.
min_quality_score == 30

\* max_results of the call at search_engine.py:72
max_results == 10

\* The retry budgets considered: the default of SearchEngine.__init__ and
\* two smaller ones.
RetryBudgets == {1, 2, 5}

\* The descriptors searched for: one with an ISRC, one without and with
\* several artists, and a self-titled track.
SearchTracks ==
    <<[track_id |-> "s1", artist |-> "Daft Punk", name |-> "One More Time",
       album |-> "Discovery", isrc |-> "GBDUW0000053"],
      [track_id |-> "s2", artist |-> "Queen, David Bowie",
       name |-> "Under Pressure", album |-> "Hot Space", isrc |-> None],
      [track_id |-> "s3", artist |-> "Weezer", name |-> "Weezer",
       album |-> "Weezer", isrc |-> ""]>>

SearchDescriptors == {SearchTracks[k] : k \in 1..Len(SearchTracks)}

\* metadata.artist.split(",")[0]
RECURSIVE BeforeComma(_)
BeforeComma(str) ==
    IF str = "" THEN ""
    ELSE IF Head(str) = "," THEN ""
    ELSE Head(str) \o BeforeComma(Tail(str))

\* The queries in another order: the lyrics query before the ISRC.
_generate_search_queries_reordered(metadata) ==
    LET artist_first == IF Contains(metadata.artist, ",")
                        THEN Strip(BeforeComma(metadata.artist))
                        ELSE metadata.artist
    IN
    <<metadata.artist \o " " \o metadata.name,
      metadata.artist \o " " \o metadata.name \o " official audio",
      metadata.name \o " " \o metadata.artist,
      metadata.artist \o " " \o metadata.name \o " lyrics">>
    \o (IF Falsy(metadata.isrc) THEN <<>> ELSE <<metadata.isrc>>)
    \o <<metadata.name \o " audio",
         metadata.name \o " " \o metadata.album,
         metadata.name \o " full song",
         artist_first \o " " \o metadata.name>>

\* _generate_search_queries, search_engine.py:101-133
_generate_search_queries(metadata) ==
    LET artist_first == IF Contains(metadata.artist, ",")
                        THEN Strip(BeforeComma(metadata.artist))
                        ELSE metadata.artist
    IN
    <<metadata.artist \o " " \o metadata.name,
      metadata.artist \o " " \o metadata.name \o " official audio",
      metadata.name \o " " \o metadata.artist>>
    \o (IF Falsy(metadata.isrc) THEN <<>> ELSE <<metadata.isrc>>)
    \o <<metadata.artist \o " " \o metadata.name \o " lyrics",
         metadata.name \o " audio",
         metadata.name \o " " \o metadata.album,
         metadata.name \o " full song",
         artist_first \o " " \o metadata.name>>

\* The queries of each descriptor, evaluated once.
Queries == [d \in SearchDescriptors |-> _generate_search_queries(d)]

\* search_queries[:self.max_retries], search_engine.py:69
BudgetAll == Len(Queries[smeta])

Budget == Min(max_retries, Len(Queries[smeta]))

\* The scores _calculate_quality_score gives the results of a response, in
\* hundredths: two below the acceptance score and the acceptance score itself
\* (the scorer returns no less than 0.1).
Scores == {10, 20, 30}

\* A line of the collaborator's output: a JSON object, for which score is
\* the value of _calculate_quality_score for the descriptor, or a JSON value
\* that is no object (result.get raises and the line is skipped).
RawResults ==
    {[dict |-> TRUE, score |-> x] : x \in Scores} \cup {[dict |-> FALSE, score |-> 0]}

\* What one call of the collaborator can print: up to two lines.
Responses ==
    {<<>>} \cup {<<a>> : a \in RawResults} \cup {<<a, b>> : a, b \in RawResults}

\* How _execute_search can end without results: nonzero exit status
\* (163-164), subprocess.TimeoutExpired (177-179), any other exception
\* (180-182).
SearchFailures == {"nonzero", "timeout", "error"}

\* SearchResult, search_engine.py:18-26 and 208-218: the n-th line of the
\* k-th call is the video "qkrn".
SearchResult(k, n, raw) ==
    [url |-> "https://www.youtube.com/watch?v=q" \o ToString(k) \o "r" \o ToString(n),
     quality_score |-> raw.score]

\* scored_results, search_engine.py:200-222
scored_results(k, rs) ==
    LET idx == {n \in 1..Len(rs) : rs[n].dict}
        F[n \in 0..Len(rs)] ==
            IF n = 0 THEN <<>>
            ELSE IF n \in idx THEN Append(F[n - 1], SearchResult(k, n, rs[n]))
            ELSE F[n - 1]
    IN F[Len(rs)]

\* seq.sort(key=lambda x: x.quality_score, reverse=True); seq[0]: the sort is
\* stable, so of the entries with the highest score the first one comes first.
SortedFirst(seq) ==
    seq[CHOOSE k \in 1..Len(seq) :
          \A l \in 1..Len(seq) :
             \/ seq[l].quality_score < seq[k].quality_score
             \/ seq[l].quality_score = seq[k].quality_score /\ k <= l]

\* seq.sort(key=lambda x: x.quality_score, reverse=True): the list in
\* descending order of score, entries of equal score in the order they had.
RECURSIVE StableSortDesc(_)
StableSortDesc(seq) ==
    IF seq = <<>> THEN <<>>
    ELSE LET k == CHOOSE n \in 1..Len(seq) :
                     \A l \in 1..Len(seq) :
                        \/ seq[l].quality_score < seq[n].quality_score
                        \/ seq[l].quality_score = seq[n].quality_score /\ n <= l
         IN <<seq[k]>> \o StableSortDesc(SubSeq(seq, 1, k - 1)
                                          \o SubSeq(seq, k + 1, Len(seq)))

\* _find_best_match, search_engine.py:184-228: <<>> for None
_find_best_match(k, rs) ==
    IF scored_results(k, rs) = <<>> THEN <<>>
    ELSE <<SortedFirst(scored_results(k, rs))>>

\* search_engine.py:80
AcceptsStrict(best_match) == best_match.quality_score > min_quality_score

Accepts(best_match) == best_match.quality_score >= min_quality_score

(* search_engine.py:69-72: the next query of the loop, if the budget allows *)
NextQuery ==
    /\ spc = "l69"
    /\ IF Len(calls) < Budget
       THEN /\ calls' = Append(calls, [query |-> Queries[smeta][Len(calls) + 1],
                                       max_results |-> max_results])
            /\ spc' = "l72"
       ELSE /\ spc' = "l89"
            /\ UNCHANGED calls
    /\ UNCHANGED <<max_retries, smeta, sresults, all_results, sret, slast, scored_any,
                   seen_scores>>
    /\ UNCHANGED <<jobVars, batchVars, cliVars, fnVars, apiVars>>

\* _execute_search with the exception of a failed call not caught.
ExecuteSearchRaises ==
    /\ spc = "l72"
    /\ \/ \E rs \in Responses :
             /\ sresults' = rs
             /\ slast' = "ok"
             /\ scored_any' = (scored_any \/ \E n \in 1..Len(rs) : rs[n].dict)
             /\ seen_scores' = seen_scores \cup
                    {rs[n].score : n \in {l \in 1..Len(rs) : rs[l].dict}}
             /\ spc' = IF rs = <<>> THEN "l74" ELSE "l77"
       \/ \E kind \in SearchFailures :
             /\ sresults' = <<>>
             /\ slast' = kind
             /\ spc' = "raised"
             /\ UNCHANGED <<scored_any, seen_scores>>
    /\ UNCHANGED <<max_retries, smeta, calls, all_results, sret>>
    /\ UNCHANGED <<jobVars, batchVars, cliVars, fnVars, apiVars>>

(* search_engine.py:72-73 and _execute_search, 135-182 *)
ExecuteSearch ==
    /\ spc = "l72"
    /\ \/ \E rs \in Responses :
             /\ sresults' = rs
             /\ slast' = "ok"
             /\ scored_any' = (scored_any \/ \E n \in 1..Len(rs) : rs[n].dict)
             /\ seen_scores' = seen_scores \cup
                    {rs[n].score : n \in {l \in 1..Len(rs) : rs[l].dict}}
             /\ spc' = IF rs = <<>> THEN "l74" ELSE "l77"
       \/ \E kind \in SearchFailures :
             /\ sresults' = <<>>
             /\ slast' = kind
             /\ spc' = "l74"
             /\ UNCHANGED <<scored_any, seen_scores>>
    /\ UNCHANGED <<max_retries, smeta, calls, all_results, sret>>
    /\ UNCHANGED <<jobVars, batchVars, cliVars, fnVars, apiVars>>

\* The attempt returning its best match whatever its score.
FindBestMatchAcceptsAny ==
    /\ spc = "l77"
    /\ LET best_match == _find_best_match(Len(calls), sresults) IN
       IF best_match = <<>>
       THEN /\ spc' = "l87"
            /\ UNCHANGED <<all_results, sret>>
       ELSE /\ all_results' = Append(all_results, best_match[1])
            /\ sret' = best_match
            /\ spc' = "returned"
    /\ UNCHANGED <<max_retries, smeta, calls, sresults, slast, scored_any,
                   seen_scores>>
    /\ UNCHANGED <<jobVars, batchVars, cliVars, fnVars, apiVars>>

\* The attempt with a best match kept only when it is accepted.
FindBestMatchDropsWeak ==
    /\ spc = "l77"
    /\ LET best_match == _find_best_match(Len(calls), sresults) IN
       IF best_match # <<>> /\ Accepts(best_match[1])
       THEN /\ all_results' = Append(all_results, best_match[1])
            /\ sret' = best_match
            /\ spc' = "returned"
       ELSE /\ spc' = "l87"
            /\ UNCHANGED <<all_results, sret>>
    /\ UNCHANGED <<max_retries, smeta, calls, sresults, slast, scored_any,
                   seen_scores>>
    /\ UNCHANGED <<jobVars, batchVars, cliVars, fnVars, apiVars>>

(* search_engine.py:77-85 *)
FindBestMatch ==
    /\ spc = "l77"
    /\ LET best_match == _find_best_match(Len(calls), sresults) IN
       IF best_match = <<>>
       THEN /\ spc' = "l87"
            /\ UNCHANGED <<all_results, sret>>
       ELSE /\ all_results' = Append(all_results, best_match[1])
            /\ IF Accepts(best_match[1])
               THEN sret' = best_match /\ spc' = "returned"
               ELSE spc' = "l87" /\ UNCHANGED sret
    /\ UNCHANGED <<max_retries, smeta, calls, sresults, slast, scored_any,
                   seen_scores>>
    /\ UNCHANGED <<jobVars, batchVars, cliVars, fnVars, apiVars>>

(* search_engine.py:74-75 and 87: time.sleep(0.3), then the next round *)
Backoff ==
    /\ spc \in {"l74", "l87"}
    /\ spc' = "l69"
    /\ UNCHANGED <<max_retries, smeta, calls, sresults, all_results, sret, slast,
                   scored_any, seen_scores>>
    /\ UNCHANGED <<jobVars, batchVars, cliVars, fnVars, apiVars>>

\* The fallback returning the match of the last attempt that had one.
SearchFallbackLast ==
    /\ spc = "l89"
    /\ sret' = IF all_results # <<>> THEN <<all_results[Len(all_results)]>> ELSE <<>>
    /\ spc' = "returned"
    /\ UNCHANGED <<max_retries, smeta, calls, sresults, all_results, slast, scored_any,
                   seen_scores>>
    /\ UNCHANGED <<jobVars, batchVars, cliVars, fnVars, apiVars>>

(* search_engine.py:89-99: all_results is sorted in place, its first entry *)
(* is returned                                                             *)
SearchFallback ==
    /\ spc = "l89"
    /\ all_results' = StableSortDesc(all_results)
    /\ sret' = IF all_results # <<>> THEN <<all_results'[1]>> ELSE <<>>
    /\ spc' = "returned"
    /\ UNCHANGED <<max_retries, smeta, calls, sresults, slast, scored_any,
                   seen_scores>>
    /\ UNCHANGED <<jobVars, batchVars, cliVars, fnVars, apiVars>>

\* One call of SearchEngine.search.
InitSearch ==
    /\ max_retries \in RetryBudgets
    /\ smeta \in SearchDescriptors
    /\ spc = "l69"
    /\ calls = <<>>
    /\ sresults = <<>>
    /\ all_results = <<>>
    /\ sret = <<>>
    /\ slast = "none"
    /\ scored_any = FALSE
    /\ seen_scores = {}

\* Part III at rest.
IdleSearch ==
    /\ max_retries = 5
    /\ smeta = SearchTracks[1]
    /\ spc = "idle"
    /\ calls = <<>>
    /\ sresults = <<>>
    /\ all_results = <<>>
    /\ sret = <<>>
    /\ slast = "none"
    /\ scored_any = FALSE
    /\ seen_scores = {}

SearchNext ==
    \/ NextQuery
    \/ ExecuteSearch
    \/ FindBestMatch
    \/ Backoff
    \/ SearchFallback

(***************************************************************************)
(* Properties of Part III.                                                 *)
(***************************************************************************)

\* The best candidate of the attempt whose results are being looked at.
BestOfAttempt == _find_best_match(Len(calls), sresults)

\* C13: when the best candidate of the current query scores at least the
\* acceptance score, search returns that candidate at once, and after search
\* has returned no further search call is made; the first query qualifying
\* therefore leaves exactly one call.
C13_EarlyAccept ==
    [][/\ (/\ spc = "l77"
           /\ BestOfAttempt # <<>>
           /\ BestOfAttempt[1].quality_score >= min_quality_score)
          => /\ spc' = "returned"
             /\ sret' = BestOfAttempt
             /\ calls' = calls
       /\ spc = "returned" => calls' = calls /\ sret' = sret]_vars

\* C13 witness: the first query qualified with a score equal to the
\* acceptance score, search has returned, one call was made although the
\* budget allowed five.
C13_Witness ==
    /\ spc = "returned"
    /\ max_retries = 5
    /\ Len(calls) = 1
    /\ sret # <<>>
    /\ sret[1].quality_score = min_quality_score

\* C14: when search returns a candidate below the acceptance score, it is a
\* candidate with the highest score among the best matches of all attempts,
\* and the earliest of them in the order of the attempts.
C14_FallbackIsGlobalBest ==
    [][(spc # "returned" /\ spc' = "returned" /\ sret' # <<>>
           /\ sret'[1].quality_score < min_quality_score)
       => \E k \in 1..Len(all_results) :
             /\ sret'[1] = all_results[k]
             /\ \A l \in 1..Len(all_results) :
                   /\ all_results[l].quality_score <= all_results[k].quality_score
                   /\ l < k => all_results[l].quality_score
                                   < all_results[k].quality_score]_vars

\* C14 witness: the budget of five is used up, the candidate returned is
\* that of the second call, the third call had a candidate with the same
\* score and the first call one with a lower score; the sorted list is what
\* the call leaves.
C14_Witness ==
    /\ spc = "returned"
    /\ Len(calls) = 5
    /\ sret # <<>>
    /\ [k \in 1..Len(all_results) |-> all_results[k].url] =
          <<SearchResult(2, 1, [score |-> 0]).url,
            SearchResult(3, 1, [score |-> 0]).url,
            SearchResult(1, 1, [score |-> 0]).url>>
    /\ sret[1] = all_results[1]
    /\ all_results[2].quality_score = sret[1].quality_score
    /\ all_results[3].quality_score < sret[1].quality_score

\* C15: search makes at most max_retries calls, and the k-th call carries
\* the k-th query of the Query Generator's output for the descriptor, so that
\* no entry of the output is skipped or used twice; a call that yields no
\* results is one of the calls counted.
C15_BudgetAndQueryOrder ==
    /\ Len(calls) <= max_retries
    /\ \A k \in 1..Len(calls) :
          calls[k] = [query |-> Queries[smeta][k],
                      max_results |-> 10]

\* C15 witness: with the default budget, five calls were made, none of them
\* gave a result that scored, and search has returned no match.
C15_Witness ==
    /\ spc = "returned"
    /\ max_retries = 5
    /\ Len(calls) = 5
    /\ ~scored_any
    /\ sret = <<>>

\* C16: search returns None exactly when no attempt had a result that
\* scored.
C16_NoMatchIffNothingScored ==
    spc = "returned" => (sret = <<>> <=> ~scored_any)

\* C16 witness: a candidate below the acceptance score is returned after the
\* budget is used up, the only one any attempt produced.
C16_Witness ==
    /\ spc = "returned"
    /\ sret # <<>>
    /\ sret[1].quality_score = 10
    /\ Len(all_results) = 1
    /\ Len(calls) = 5

\* C17: a call that times out, exits with a nonzero status or raises leaves
\* search at the backoff wait with the candidates of earlier attempts kept,
\* the wait is followed by the next round of the loop, and search never ends
\* with an exception.
C17_FailedAttemptIsNoResults ==
    [][/\ (spc = "l72" /\ spc' # "l72" /\ slast' \in SearchFailures)
          => /\ spc' = "l74"
             /\ all_results' = all_results
             /\ sresults' = <<>>
       /\ (spc = "l74" /\ spc' # "l74")
          => spc' = "l69" /\ all_results' = all_results
       /\ spc' # "raised"]_vars

\* C17 witness: the last call of the budget timed out and search returned the
\* candidate an earlier attempt had found.
C17_Witness ==
    /\ spc = "returned"
    /\ slast = "timeout"
    /\ Len(calls) = 5
    /\ sret # <<>>
    /\ sret[1] = all_results[1]

\* C36: when search has returned a candidate that scores below the
\* acceptance score, min(max_retries, number of queries) search calls have
\* been made and no result of any attempt scored the acceptance score or more.
C36_WeakCandidateOnlyAfterWholeBudget ==
    (spc = "returned" /\ sret # <<>>
        /\ sret[1].quality_score < min_quality_score) =>
        /\ Len(calls) = IF max_retries < Len(Queries[smeta])
                        THEN max_retries ELSE Len(Queries[smeta])
        /\ \A x \in seen_scores : x < min_quality_score

\* Five calls, of which one failed and two had results that scored 10 and
\* 20: the candidate that scored 20 is returned.
C36_Witness ==
    /\ spc = "returned"
    /\ max_retries = 5
    /\ Len(calls) = 5
    /\ seen_scores = {10, 20}
    /\ sret # <<>>
    /\ sret[1].quality_score = 20

(***************************************************************************)
(* Part IV: _download_batch of src/src/spotify_downloader/cli.py           *)
(***************************************************************************)

\* The track lists considered: the descriptors of the batches of Part II.
TrackLists == {[i \in ItemIds |-> b[i].meta] : b \in Batches}

\* The loop at cli.py:365 goes on after the first search has returned.
SomeSearched == \E k \in 1..Len(tracks) : searched[k] = "done"

\* cli.py:365: the for loop has gone through every descriptor
AllSearched == \A k \in 1..Len(tracks) : searched[k] # "pending"

(* cli.py:365-366: the next descriptor of the loop; search is called *)
CliSearchCall ==
    /\ cpc = "l365"
    /\ IF AllSearched
       THEN cpc' = "l372" /\ UNCHANGED searched
       ELSE LET k == CHOOSE n \in 1..Len(tracks) :
                        /\ searched[n] = "pending"
                        /\ \A m \in 1..(n - 1) : searched[m] # "pending"
            IN /\ searched' = [searched EXCEPT ![k] = "running"]
               /\ cpc' = "l366"
    /\ UNCHANGED <<tracks, cret, normalize>>
    /\ UNCHANGED <<jobVars, batchVars, searchVars, fnVars, apiVars>>

(* cli.py:366-370: search returns a candidate or None *)
CliSearchReturn ==
    /\ cpc = "l366"
    /\ \E k \in 1..Len(tracks) :
          /\ searched[k] = "running"
          /\ searched' = [searched EXCEPT ![k] = "done"]
          /\ \E search_result \in {<<>>, <<Candidate(k)>>} :
                items' = IF search_result # <<>>
                         THEN Append(items, [sr |-> search_result[1],
                                             meta |-> tracks[k]])
                         ELSE items
    /\ cpc' = "l365"
    /\ UNCHANGED <<tracks, cret, normalize>>
    /\ UNCHANGED <<max_workers, removed, files, bpc, queue, dpc, dloc, fut, collected, results>>
    /\ UNCHANGED <<jobVars, searchVars, fnVars, apiVars>>

(* cli.py:372-377: nothing matched, or download_batch is called *)
CliCallBatch ==
    /\ cpc = "l372"
    /\ IF items = <<>>
       THEN cret' = <<>> /\ cpc' = "returned" /\ UNCHANGED bpc
       ELSE bpc' = "submitting" /\ cpc' = "l377" /\ UNCHANGED cret
    /\ UNCHANGED <<tracks, searched, normalize>>
    /\ UNCHANGED <<max_workers, removed, items, files, queue, dpc, dloc, fut, collected, results>>
    /\ UNCHANGED <<jobVars, searchVars, fnVars, apiVars>>

\* What normalize_audio leaves at a path, metadata_manager.py:185-219: the
\* file re-encoded at target_bitrate, 320 kbps, which replaces the one that
\* was there.
Normalized(content) == [src |-> content.src, size |-> 8000000, bitrate |-> 320]

\* The loop at cli.py:380-384 over the results rs on the directory fs:
\* embed_metadata writes the tags into the file of every successful result
\* that is still there, which changes nothing of what the directory records
\* of it; with normalize, normalize_audio then replaces the file by its
\* re-encoding when its ffmpeg run ends well (ok), and leaves it when the
\* run fails or finds no file.
RECURSIVE PostProcess(_, _, _)
PostProcess(fs, rs, ok) ==
    IF rs = <<>> THEN fs
    ELSE LET result == Head(rs)
             path == result.file_path
         IN PostProcess(
                IF /\ result.success /\ path # None
                   /\ normalize
                   /\ path \in DOMAIN fs
                   /\ Head(ok)
                THEN With(fs, path, Normalized(fs[path]))
                ELSE fs,
                Tail(rs), Tail(ok))

(* cli.py:377-386: download_batch has returned; the files of the successful *)
(* results are post-processed and the results are returned                 *)
CliReturn ==
    /\ cpc = "l377"
    /\ bpc = "returned"
    /\ \E ok \in [1..Len(results) -> BOOLEAN] :
          files' = PostProcess(files, results, ok)
    /\ cret' = results
    /\ cpc' = "returned"
    /\ UNCHANGED <<tracks, searched, normalize>>
    /\ UNCHANGED <<max_workers, removed, items, bpc, queue, dpc, dloc, fut, collected, results>>
    /\ UNCHANGED <<jobVars, searchVars, fnVars, apiVars>>

\* One call of _download_batch.
InitCli ==
    /\ tracks \in TrackLists
    /\ cpc = "l365"
    /\ searched = [k \in ItemIds |-> "pending"]
    /\ cret = <<>>
    /\ normalize \in BOOLEAN
    /\ max_workers \in 1..MaxWorkers
    /\ items = <<>>
    /\ files = <<>>
    /\ bpc = "idle"
    /\ queue = <<>>
    /\ dpc = [i \in ItemIds |-> "unsubmitted"]
    /\ dloc = [i \in ItemIds |-> NoDLocals]
    /\ fut = [i \in ItemIds |-> [state |-> "none"]]
    /\ collected = <<>>
    /\ results = <<>>
    /\ removed = <<>>

\* Part IV at rest.
IdleCli ==
    /\ tracks = <<>>
    /\ cpc = "idle"
    /\ searched = <<>>
    /\ cret = <<>>
    /\ normalize = FALSE

CliNext ==
    \/ CliSearchCall
    \/ CliSearchReturn
    \/ CliCallBatch
    \/ BatchNext
    \/ CliReturn

(***************************************************************************)
(* Properties of Part IV.                                                  *)
(***************************************************************************)

\* C12: at most one search is in progress at any time, and no download_single
\* has been submitted or started, and download_batch has not been entered,
\* before the search of every descriptor of the collection has returned.
C12_SearchesBeforeAcquisition ==
    /\ Cardinality({k \in 1..Len(tracks) : searched[k] = "running"}) <= 1
    /\ (bpc # "idle" \/ \E i \in ItemIds : dpc[i] # "unsubmitted")
       => \A k \in 1..Len(tracks) : searched[k] = "done"

\* C12 witness: the fetch of an item is running, for a collection of at least
\* two descriptors which were all matched.
C12_Witness ==
    /\ Len(tracks) >= 2
    /\ Len(items) = Len(tracks)
    /\ \E i \in ItemIds : dpc[i] = "l125"
    /\ \A k \in 1..Len(tracks) : searched[k] = "done"

\* C31: when _download_batch has returned, its list has one result for each
\* descriptor of the collection, the descriptors without a match included.
C31_ResultForEveryDescriptor ==
    cpc = "returned" =>
        /\ Len(cret) = Len(tracks)
        /\ \A k \in 1..Len(tracks) :
               \E n \in 1..Len(cret) : cret[n].metadata = tracks[k]

(***************************************************************************)
(* Part V: the pure functions of search_engine.py and downloader.py        *)
(***************************************************************************)

Max(a, b) == IF a > b THEN a ELSE b

UpperChars == "ABCDEFGHIJKLMNOPQRSTUVWXYZ"

LowerChars == "abcdefghijklmnopqrstuvwxyz"

\* str.lower(), for the letters the inputs use
RECURSIVE Lower(_)
Lower(str) ==
    IF str = "" THEN ""
    ELSE (IF Contains(UpperChars, Head(str))
          THEN LET k == CHOOSE n \in 1..Len(UpperChars) :
                           SubSeq(UpperChars, n, n) = Head(str)
               IN SubSeq(LowerChars, k, k)
          ELSE Head(str)) \o Lower(Tail(str))

\* sub in str
InStr(sub, str) ==
    \E k \in 0..(Len(str) - Len(sub)) : SubSeq(str, k + 1, k + Len(sub)) = sub

\* The characters of str before its first space.
RECURSIVE FirstWord(_)
FirstWord(str) ==
    IF str = "" THEN ""
    ELSE IF Head(str) = " " THEN ""
    ELSE Head(str) \o FirstWord(Tail(str))

\* str.split()
RECURSIVE Words(_)
Words(str) ==
    IF str = "" THEN <<>>
    ELSE IF Head(str) = " " THEN Words(Tail(str))
    ELSE <<FirstWord(str)>>
             \o Words(SubSeq(str, Len(FirstWord(str)) + 1, Len(str)))

\* dict.get(key, default): an absent key is the empty sequence
Get(opt, default) == IF opt = <<>> THEN default ELSE opt[1]

\* search_engine.py:264 and 267: len(word) > 2
QualifiesLong(word) == Len(word) > 3

Qualifies(word) == Len(word) > 2

\* search_engine.py:263-268: the words of a field that count for the title
WordHits(field, title) ==
    Cardinality({k \in 1..Len(Words(field)) :
                   Qualifies(Words(field)[k]) /\ InStr(Words(field)[k], title)})

\* search_engine.py:292-293
official_keywords == <<"official", "audio", "lyrics", "hd", "hq", "full">>

bad_keywords ==
    <<"cover", "remix", "live", "karaoke", "instrumental", "acoustic", "slowed",
      "reverb">>

\* search_engine.py:300 with the track name not looked at
BadKeywordInTitle(keyword, title, track_lower) == InStr(keyword, title)

\* search_engine.py:300
BadKeywordCounts(keyword, title, track_lower) ==
    InStr(keyword, title) /\ ~InStr(keyword, track_lower)

\* search_engine.py:295-301: keyword_score in twentieths
keyword_score(title, track_lower) ==
    LET Up[n \in 0..Len(official_keywords)] ==
            IF n = 0 THEN 10
            ELSE IF InStr(official_keywords[n], title)
                 THEN Min(20, Up[n - 1] + 2)
                 ELSE Up[n - 1]
        Down[n \in 0..Len(bad_keywords)] ==
            IF n = 0 THEN Up[Len(official_keywords)]
            ELSE IF BadKeywordCounts(bad_keywords[n], title, track_lower)
                 THEN Max(0, Down[n - 1] - 3)
                 ELSE Down[n - 1]
    IN Down[Len(bad_keywords)]

\* The view counts of the inputs are one less than a power of ten, so that
\* math.log10(view_count + 1) is a whole number.
Log10(n) == CHOOSE e \in 0..12 : 10^e = n

\* search_engine.py:276 with the boundary left out
DurationWithinStrict(diff_ms, base_ms) == 10 * diff_ms < 3 * base_ms

\* search_engine.py:276: duration_diff <= self.duration_tolerance (0.30)
DurationWithin(diff_ms, base_ms) == 10 * diff_ms <= 3 * base_ms

\* The scores of one call are whole multiples of 1 / ScoreDen, where the
\* divisor max(target_duration, 1) of line 275 is taken in milliseconds.
DurationBase(metadata) == Max(metadata.duration_ms, 1000)

ScoreDen(metadata) == 2400 * DurationBase(metadata)

\* search_engine.py:304 without the clamp
NoClamp(n, den) == n

\* search_engine.py:304: min(1.0, max(0.1, score))
Clamp(n, den) == Min(den, Max(den \div 10, n))

\* _calculate_quality_score, search_engine.py:230-304. The value is the
\* record of the locals at the return, each in units of 1 / ScoreDen except
\* title_score (quarters) and keyword_score (twentieths); a title of None
\* makes .lower() raise.
_calculate_quality_score(result, metadata) ==
    IF Get(result.title, "") = None
    THEN [raised |-> TRUE]
    ELSE
    LET M == DurationBase(metadata)
        title == Lower(Get(result.title, ""))
        track_lower == Lower(metadata.name)
        title_score == Min(4, WordHits(Lower(metadata.artist), title)
                              + WordHits(track_lower, title))
        duration == Get(result.duration, 0)
        diff == IF 1000 * duration >= metadata.duration_ms
                THEN 1000 * duration - metadata.duration_ms
                ELSE metadata.duration_ms - 1000 * duration
        duration_part ==
            IF duration > 0 /\ metadata.duration_ms > 0
            THEN IF DurationWithin(diff, M)
                 THEN 200 * (3 * M - 10 * diff)
                 ELSE 60 * Max(0, 5 * M - 3 * diff)
            ELSE 240 * M
        view_count == Get(result.view_count, 0)
        popularity_part ==
            IF view_count > 0
            THEN 45 * Min(8, Log10(view_count + 1)) * M
            ELSE 120 * M
        kw == keyword_score(title, track_lower)
        sum == 300 * title_score * M + duration_part + popularity_part
                   + 12 * kw * M
    IN [raised |-> FALSE,
        title_score |-> title_score,
        duration_part |-> duration_part,
        popularity_part |-> popularity_part,
        keyword_score |-> kw,
        sum |-> sum,
        score |-> Clamp(sum, ScoreDen(metadata))]

\* The descriptors scored against: five qualifying words, two, none and a
\* duration of 0, a negative keyword in the track name, a track of half a
\* second.
ScoreDescriptors ==
    {[artist |-> "Daft Punk", name |-> "One More Time", duration_ms |-> 200000],
     [artist |-> "Sia", name |-> "Chandelier", duration_ms |-> 200000],
     [artist |-> "", name |-> "", duration_ms |-> 0],
     [artist |-> "Oasis", name |-> "Live Forever", duration_ms |-> 200000],
     [artist |-> "Blip", name |-> "Intro", duration_ms |-> 500]}

\* The titles of the candidates: absent, null, and texts.
ScoreTitles ==
    {<<>>, <<None>>, <<"">>,
     <<"Daft Punk - One More Time (Official Audio)">>,
     <<"Sia - Chandelier">>,
     <<"Oasis - Live Forever">>,
     <<"Oasis - Live Forever (Live Cover Remix)">>,
     <<"Karaoke Instrumental Acoustic Slowed Reverb Cover">>,
     <<"Official Audio Lyrics HD HQ Full">>,
     <<"Blip Intro">>}

\* The durations of the candidates in seconds: absent, 0, the target, the
\* tolerance boundary of a target of 200 s and the second after it, and
\* durations far from the target.
ScoreDurations == {<<>>, <<0>>, <<1>>, <<140>>, <<200>>, <<260>>, <<261>>, <<1000>>}

ScoreViewCounts == {<<>>, <<0>>, <<9>>, <<9999>>, <<99999999>>, <<999999999>>}

ScoreCalls ==
    {[fn |-> "score",
      result |-> [title |-> t, duration |-> d, view_count |-> v],
      metadata |-> m] :
        t \in ScoreTitles, d \in ScoreDurations, v \in ScoreViewCounts,
        m \in ScoreDescriptors}

\* The descriptors queries are generated for.
QueryCalls ==
    {[fn |-> "queries",
      metadata |-> [artist |-> a, name |-> n, album |-> b, isrc |-> c]] :
        a \in {"Daft Punk", "Queen, David Bowie", "Weezer", ""},
        n \in {"One More Time", "Weezer", ""},
        b \in {"Discovery", ""},
        c \in {None, "", "GBDUW0000053"}}

\* downloader.py:351 with the default below the minimum bitrate
_get_bitrate_pessimistic(file_size, bit_rate, duration_ms) ==
    IF bit_rate # <<>> THEN bit_rate[1] \div 1000
    ELSE IF duration_ms # <<>> /\ duration_ms[1] > 0
         THEN (file_size * 8) \div duration_ms[1]
         ELSE 0

\* _get_bitrate, downloader.py:291-351. bit_rate is what the first probe
\* printed in bit/s and duration_ms what the second printed, in
\* milliseconds, each empty when the probe failed or printed no number.
_get_bitrate(file_size, bit_rate, duration_ms) ==
    IF bit_rate # <<>> THEN bit_rate[1] \div 1000
    ELSE IF duration_ms # <<>> /\ duration_ms[1] > 0
         THEN (file_size * 8) \div duration_ms[1]
         ELSE 192

\* _validate_file_detailed, downloader.py:267-289, for a file of the given
\* size and the given answers of the probes
validate_probed(file_size, bit_rate, duration_ms) ==
    IF file_size < MinFileSize THEN <<FALSE, file_size, 0>>
    ELSE IF _get_bitrate(file_size, bit_rate, duration_ms) < MinBitrate
         THEN <<FALSE, file_size, _get_bitrate(file_size, bit_rate, duration_ms)>>
         ELSE <<TRUE, file_size, _get_bitrate(file_size, bit_rate, duration_ms)>>

\* The files measured: sizes around the minimum, probes that fail or print
\* values around the minimum bitrate, durations of 0 and less.
BitrateCalls ==
    {[fn |-> "bitrate", file_size |-> s, bit_rate |-> b, duration_ms |-> d] :
        s \in {1000, 499999, 500000, 4000000, 8000000},
        b \in {<<>>, <<0>>, <<96000>>, <<127999>>, <<128000>>, <<320000>>},
        d \in {<<>>, <<0>>, <<0 - 1000>>, <<200000>>, <<400000>>}}

(* SearchEngine._calculate_quality_score is called *)
ApplyScore ==
    /\ call.fn = "score"
    /\ Len(ret) < 2
    /\ ret' = Append(ret, _calculate_quality_score(call.result, call.metadata))
    /\ UNCHANGED call
    /\ UNCHANGED <<jobVars, batchVars, searchVars, cliVars, apiVars>>

\* Two candidates scored against one descriptor that has a duration: they
\* differ in their durations only.
CompareCalls ==
    {[fn |-> "compare",
      a |-> [title |-> <<"">>, duration |-> <<da>>, view_count |-> <<>>],
      b |-> [title |-> <<"">>, duration |-> <<db>>, view_count |-> <<>>],
      metadata |-> m] :
        da \in {1, 140, 170, 200, 259, 260, 261, 1000},
        db \in {1, 140, 170, 200, 259, 260, 261, 1000},
        m \in {d \in ScoreDescriptors : d.duration_ms > 0}}

(* SearchEngine._find_best_match scores two results of one response *)
ApplyScorePair ==
    /\ call.fn = "compare"
    /\ ret = <<>>
    /\ ret' = <<_calculate_quality_score(call.a, call.metadata),
                _calculate_quality_score(call.b, call.metadata)>>
    /\ UNCHANGED call
    /\ UNCHANGED <<jobVars, batchVars, searchVars, cliVars, apiVars>>

(* SearchEngine._generate_search_queries is called *)
ApplyQueries ==
    /\ call.fn = "queries"
    /\ Len(ret) < 2
    /\ ret' = Append(ret, [queries |-> _generate_search_queries(call.metadata)])
    /\ UNCHANGED call
    /\ UNCHANGED <<jobVars, batchVars, searchVars, cliVars, apiVars>>

(* Downloader._validate_file_detailed is called *)
ApplyBitrate ==
    /\ call.fn = "bitrate"
    /\ Len(ret) < 2
    /\ ret' = Append(ret,
          [bitrate |-> _get_bitrate(call.file_size, call.bit_rate, call.duration_ms),
           valid |-> validate_probed(call.file_size, call.bit_rate,
                                     call.duration_ms)])
    /\ UNCHANGED call
    /\ UNCHANGED <<jobVars, batchVars, searchVars, cliVars, apiVars>>

\* A call of one of the functions, made up to twice with the same arguments.
InitFn ==
    /\ call \in ScoreCalls \cup QueryCalls \cup BitrateCalls \cup CompareCalls
    /\ ret = <<>>

FnNext ==
    \/ ApplyScore
    \/ ApplyScorePair
    \/ ApplyQueries
    \/ ApplyBitrate

(***************************************************************************)
(* Properties of the pure functions                                        *)
(***************************************************************************)

\* The scorer was called and returned a score as its k-th value.
Scored(k) == call.fn = "score" /\ k \in 1..Len(ret) /\ ~ret[k].raised

\* C24: every score the Match Scorer returns lies in [0.1, 1.0], whatever
\* is missing from the candidate and whatever is empty in the descriptor.
C24_ScoreWithinRange ==
    \A k \in 1..Len(ret) :
        Scored(k) =>
            /\ ret[k].score >= ScoreDen(call.metadata) \div 10
            /\ ret[k].score <= ScoreDen(call.metadata)

\* A candidate without a title, far from the target duration and with nine
\* views: the weighted sum is below 0.1 and the score returned is 0.1.
C24_Witness ==
    /\ Scored(1)
    /\ call.result.title = <<>>
    /\ ret[1].sum < ScoreDen(call.metadata) \div 10
    /\ ret[1].score = ScoreDen(call.metadata) \div 10

\* The words of the artist field and of the track name, lowercased.
DescriptorWords(metadata) ==
    Words(Lower(metadata.artist)) \o Words(Lower(metadata.name))

\* The candidate has a title that contains every word of the artist field
\* and of the track name, and its duration is the target duration.
FullMatch ==
    /\ call.fn = "score"
    /\ call.result.title \notin {<<>>, <<None>>}
    /\ DescriptorWords(call.metadata) # <<>>
    /\ \A n \in 1..Len(DescriptorWords(call.metadata)) :
           InStr(DescriptorWords(call.metadata)[n], Lower(call.result.title[1]))
    /\ call.result.duration # <<>>
    /\ call.metadata.duration_ms > 0
    /\ 1000 * call.result.duration[1] = call.metadata.duration_ms

\* The number of descriptor words longer than two characters, at most four.
LongWords(metadata) ==
    Min(4, Cardinality({n \in 1..Len(DescriptorWords(metadata)) :
                            Len(DescriptorWords(metadata)[n]) > 2}))

\* C25 as stated: a candidate whose title contains every artist and track
\* word and whose duration is exactly the target scores at least 0.9.
C25_FullMatchScoresNinety ==
    \A k \in 1..Len(ret) :
        (FullMatch /\ Scored(k)) =>
            ret[k].score >= 9 * (ScoreDen(call.metadata) \div 10)

\* C25: such a candidate scores at least 0.25 for the duration plus 0.125 for
\* each descriptor word longer than two characters, up to four of them.
C25_FullMatchLowerBound ==
    \A k \in 1..Len(ret) :
        (FullMatch /\ Scored(k)) =>
            ret[k].score >= (600 + 300 * LongWords(call.metadata))
                                * DurationBase(call.metadata)

\* "Sia - Chandelier" for Sia / Chandelier with the exact duration and no view
\* count: two words, a score of 0.6.
C25_Witness ==
    /\ FullMatch
    /\ Scored(1)
    /\ LongWords(call.metadata) = 2
    /\ call.result.view_count = <<>>
    /\ ret[1].score = 6 * (ScoreDen(call.metadata) \div 10)

\* Both durations of the call are known: present and above 0.
DurationsKnown ==
    /\ call.fn = "score"
    /\ call.result.duration # <<>>
    /\ call.result.duration[1] > 0
    /\ call.metadata.duration_ms > 0

\* |candidate - target| in milliseconds
DurationGap ==
    IF 1000 * call.result.duration[1] >= call.metadata.duration_ms
    THEN 1000 * call.result.duration[1] - call.metadata.duration_ms
    ELSE call.metadata.duration_ms - 1000 * call.result.duration[1]

RECURSIVE GCD(_, _)
GCD(a, b) == IF b = 0 THEN a ELSE GCD(b, a % b)

\* The fraction n / d in lowest terms.
Frac(n, d) == <<n \div GCD(n, d), d \div GCD(n, d)>>

\* The duration contribution p (in units of 1 / ScoreDen) is the one the rule
\* gives for a relative difference of d = DurationGap / base, base in
\* milliseconds: 0.25 * (1 - d / 0.3) for d <= 0.3 and
\* 0.25 * max(0, 0.5 - 0.3 * d) above.
FollowsDurationRule(p, base) ==
    Frac(p, ScoreDen(call.metadata)) =
        IF 10 * DurationGap <= 3 * base
        THEN Frac(3 * base - 10 * DurationGap, 12 * base)
        ELSE Frac(Max(0, 5 * base - 3 * DurationGap), 40 * base)

\* C26 as stated: with both durations known the contribution follows the rule
\* for d = |candidate - target| / target; with one unknown it is 0.1.
C26_DurationRuleRelativeToTarget ==
    \A k \in 1..Len(ret) :
        Scored(k) =>
            IF DurationsKnown
            THEN FollowsDurationRule(ret[k].duration_part, call.metadata.duration_ms)
            ELSE ret[k].duration_part = ScoreDen(call.metadata) \div 10

\* C26: with both durations known the contribution follows the rule for
\* d = |candidate - target| / max(target, 1 second); with one unknown it is
\* the flat 0.1.
C26_DurationRule ==
    \A k \in 1..Len(ret) :
        Scored(k) =>
            IF DurationsKnown
            THEN FollowsDurationRule(ret[k].duration_part,
                                     IF call.metadata.duration_ms > 1000
                                     THEN call.metadata.duration_ms ELSE 1000)
            ELSE ret[k].duration_part = ScoreDen(call.metadata) \div 10

\* A candidate of 1 s for a target of half a second: the difference is
\* divided by one second, d = 0.5, and the contribution is 0.25 * 0.35.
C26_Witness ==
    /\ Scored(1)
    /\ DurationsKnown
    /\ call.metadata.duration_ms = 500
    /\ call.result.duration = <<1>>
    /\ Frac(ret[1].duration_part, ScoreDen(call.metadata)) = <<7, 80>>

\* The keyword sub-score in twentieths when exactly the given negative
\* keywords count: 0.5, plus 0.1 for each positive keyword in the title up to
\* 1.0, minus 0.15 for each counting negative keyword down to 0.
KeywordScoreWith(counting) ==
    Max(0, Min(20, 10 + 2 * Cardinality(
                      {n \in 1..Len(official_keywords) :
                           InStr(official_keywords[n],
                                 Lower(Get(call.result.title, "")))}))
           - 3 * Cardinality(counting))

\* C27: a negative keyword in the title lowers the keyword sub-score only
\* when the track name does not contain it; the sub-score, and with it the
\* score, is what the negative keywords outside the track name alone give.
C27_NegativeKeywordOnlyOutsideTrackName ==
    \A k \in 1..Len(ret) :
        Scored(k) =>
            /\ ret[k].keyword_score =
                   KeywordScoreWith(
                       {n \in 1..Len(bad_keywords) :
                            /\ InStr(bad_keywords[n],
                                     Lower(Get(call.result.title, "")))
                            /\ ~InStr(bad_keywords[n], Lower(call.metadata.name))})
            /\ ret[k].sum = 300 * ret[k].title_score * DurationBase(call.metadata)
                            + ret[k].duration_part + ret[k].popularity_part
                            + 12 * ret[k].keyword_score * DurationBase(call.metadata)

\* "Oasis - Live Forever (Live Cover Remix)" for the track Live Forever:
\* cover and remix count, live does not, and the sub-score is 0.5 - 0.3.
C27_Witness ==
    /\ Scored(1)
    /\ call.metadata.name = "Live Forever"
    /\ call.result.title = <<"Oasis - Live Forever (Live Cover Remix)">>
    /\ ret[1].keyword_score = 4

\* The generator was called twice.
Generated(k) == call.fn = "queries" /\ k \in 1..Len(ret)

\* The artist field has a comma.
SeveralArtists(metadata) == \E n \in 1..Len(metadata.artist) :
                                SubSeq(metadata.artist, n, n) = ","

\* C28: two calls of the Query Generator with one descriptor return the same
\* queries in the same order, and the order is artist-name, official audio,
\* name-artist, the ISRC, lyrics, audio, name-album, full song, first artist
\* (the whole artist field when it names one artist).
C28_QueriesDeterministicInOrder ==
    \A k \in 1..Len(ret) :
        Generated(k) =>
            LET m == call.metadata
                q == ret[k].queries
                isrc == IF m.isrc \in {None, ""} THEN 0 ELSE 1
            IN /\ ret[k] = ret[1]
               /\ Len(q) = 8 + isrc
               /\ q[1] = m.artist \o " " \o m.name
               /\ q[2] = m.artist \o " " \o m.name \o " official audio"
               /\ q[3] = m.name \o " " \o m.artist
               /\ isrc = 1 => q[4] = m.isrc
               /\ q[4 + isrc] = m.artist \o " " \o m.name \o " lyrics"
               /\ q[5 + isrc] = m.name \o " audio"
               /\ q[6 + isrc] = m.name \o " " \o m.album
               /\ q[7 + isrc] = m.name \o " full song"
               /\ q[8 + isrc] = (IF SeveralArtists(m) THEN "Queen" ELSE m.artist)
                                    \o " " \o m.name

\* Two calls for Queen, David Bowie / One More Time with an ISRC: nine queries,
\* the ISRC fourth and the first-artist variant last, both times.
C28_Witness ==
    /\ Generated(2)
    /\ call.metadata.artist = "Queen, David Bowie"
    /\ call.metadata.name = "One More Time"
    /\ call.metadata.isrc = "GBDUW0000053"
    /\ Len(ret[2].queries) = 9
    /\ ret[2].queries[4] = "GBDUW0000053"
    /\ ret[2].queries[9] = "Queen One More Time"

\* C29 as stated: the ISRC query is there, fourth, exactly when the
\* descriptor has an ISRC; the first-artist variant is there exactly when the
\* artist field has several names; there are at most 9 queries; and for a
\* single artist no query repeats an earlier one.
C29_OptionalEntriesUnderTheirConditions ==
    \A k \in 1..Len(ret) :
        Generated(k) =>
            LET m == call.metadata
                q == ret[k].queries
                isrc == IF m.isrc \in {None, ""} THEN 0 ELSE 1
                variant == IF SeveralArtists(m) THEN 1 ELSE 0
            IN /\ Len(q) = 7 + isrc + variant
               /\ Len(q) <= 9
               /\ isrc = 1 => q[4] = m.isrc
               /\ (variant = 0 /\ m.artist # "" /\ m.name # "") =>
                      \A a, b \in 1..Len(q) : q[a] = q[b] => a = b

\* C30: when the bitrate probe fails the bitrate is the size in bits over
\* the duration the second probe reports; when that probe fails too, or
\* reports 0 or less, it is 192 kbps; and with both probes failing an
\* artifact is valid exactly when it has the minimum size.
C30_BitrateDegradesInTwoSteps ==
    \A k \in 1..Len(ret) :
        (call.fn = "bitrate" /\ call.bit_rate = <<>>) =>
            IF call.duration_ms # <<>> /\ call.duration_ms[1] > 0
            THEN ret[k].bitrate = (call.file_size * 8) \div call.duration_ms[1]
            ELSE /\ ret[k].bitrate = 192
                 /\ ret[k].valid[1] = (call.file_size >= 500000)

\* Both probes fail on a file of the minimum size: 192 kbps, valid.
C30_Witness ==
    /\ call.fn = "bitrate"
    /\ call.bit_rate = <<>>
    /\ call.duration_ms = <<>>
    /\ call.file_size = 500000
    /\ Len(ret) = 1
    /\ ret[1] = [bitrate |-> 192, valid |-> <<TRUE, 500000, 192>>]

\* |candidate - target| in milliseconds, for a candidate of the call
GapOf(result) ==
    IF 1000 * result.duration[1] >= call.metadata.duration_ms
    THEN 1000 * result.duration[1] - call.metadata.duration_ms
    ELSE call.metadata.duration_ms - 1000 * result.duration[1]

\* C37: of two candidates scored against one target duration, the one whose
\* duration is at least as close to the target has a duration contribution
\* at least as high.
C37_CloserDurationScoresNoLower ==
    (call.fn = "compare" /\ Len(ret) = 2 /\ GapOf(call.a) <= GapOf(call.b)) =>
        ret[1].duration_part >= ret[2].duration_part

(***************************************************************************)
(* Part VI: SpotifyClient._make_api_call of spotify_client.py              *)
(***************************************************************************)

\* The retry budgets considered; the constructor's default is 3.
MaxApiRetries == 3

\* What a call of the wrapped function can do: return, raise a
\* SpotifyException with an HTTP status and headers with or without
\* Retry-After (in seconds), or raise another exception.
FuncOutcomes ==
    {[kind |-> "ok", http_status |-> 200, retry_after |-> <<>>],
     [kind |-> "Exception", http_status |-> 0, retry_after |-> <<>>]}
    \cup {[kind |-> "SpotifyException", http_status |-> s, retry_after |-> h] :
              s \in {404, 429, 500, 503}, h \in {<<>>, <<7>>}}

\* spotify_client.py:242, 246, 253: self.retry_delay * (2 ** attempt)
Backoff_delay == retry_delay * 2^attempt

\* What _make_api_call returned or raised.
Returned(value) == <<[kind |-> "return", what |-> value, n |-> 0]>>

Raised(what, n) == <<[kind |-> "raise", what |-> what, n |-> n]>>

\* The handlers of lines 240-257 end: the next iteration of the loop.
NextAttempt(delays) ==
    /\ slept' = slept \o delays
    /\ attempt' = attempt + 1
    /\ apc' = "l237"
    /\ UNCHANGED aout

(* spotify_client.py:237 and 258: the loop goes on, or is exhausted *)
ApiLoop ==
    /\ apc = "l237"
    /\ IF attempt < client_max_retries
       THEN apc' = "l239" /\ UNCHANGED aout
       ELSE apc' = "raised" /\ aout' = Raised("Failed after attempts", client_max_retries)
    /\ UNCHANGED <<client_max_retries, retry_delay, attempt, outcomes, slept>>
    /\ UNCHANGED <<jobVars, batchVars, searchVars, cliVars, fnVars>>

\* The wrapped function is called and ends as o.
Called(o) ==
    /\ apc = "l239"
    /\ outcomes' = Append(outcomes, o)
    /\ UNCHANGED <<client_max_retries, retry_delay>>
    /\ UNCHANGED <<jobVars, batchVars, searchVars, cliVars, fnVars>>

(* spotify_client.py:239: the wrapped function returns *)
ApiCallReturns ==
    \E o \in FuncOutcomes :
        /\ o.kind = "ok"
        /\ Called(o)
        /\ aout' = Returned("value")
        /\ apc' = "returned"
        /\ UNCHANGED <<attempt, slept>>

(* spotify_client.py:241-244: rate limited; sleep for Retry-After or backoff *)
ApiCallRateLimited ==
    \E o \in FuncOutcomes :
        /\ o.kind = "SpotifyException"
        /\ o.http_status = 429
        /\ Called(o)
        /\ NextAttempt(<<Get(o.retry_after, Backoff_delay)>>)

(* spotify_client.py:245-248: server error; sleep for the backoff *)
ApiCallServerError ==
    \E o \in FuncOutcomes :
        /\ o.kind = "SpotifyException"
        /\ o.http_status # 429
        /\ o.http_status >= 500
        /\ Called(o)
        /\ NextAttempt(<<Backoff_delay>>)

(* the handler of another status goes on to the next attempt *)
ApiCallOtherStatusRetries ==
    \E o \in FuncOutcomes :
        /\ o.kind = "SpotifyException"
        /\ o.http_status # 429
        /\ o.http_status < 500
        /\ Called(o)
        /\ NextAttempt(<<>>)

(* spotify_client.py:249-250: another status; the exception is re-raised *)
ApiCallOtherStatus ==
    \E o \in FuncOutcomes :
        /\ o.kind = "SpotifyException"
        /\ o.http_status # 429
        /\ o.http_status < 500
        /\ Called(o)
        /\ aout' = Raised("SpotifyException", o.http_status)
        /\ apc' = "raised"
        /\ UNCHANGED <<attempt, slept>>

(* spotify_client.py:251-257: another exception; sleep and retry unless *)
(* this was the last attempt                                             *)
ApiCallFails ==
    \E o \in FuncOutcomes :
        /\ o.kind = "Exception"
        /\ Called(o)
        /\ IF attempt < client_max_retries - 1
           THEN NextAttempt(<<Backoff_delay>>)
           ELSE /\ aout' = Raised("Exception", 0)
                /\ apc' = "raised"
                /\ UNCHANGED <<attempt, slept>>

\* One call of _make_api_call on a client built with the given arguments.
InitApi ==
    /\ client_max_retries \in 0..MaxApiRetries
    /\ retry_delay \in {1, 2}
    /\ apc = "l237"
    /\ attempt = 0
    /\ outcomes = <<>>
    /\ slept = <<>>
    /\ aout = <<>>

\* Part VI at rest.
IdleApi ==
    /\ client_max_retries = 3
    /\ retry_delay = 1
    /\ apc = "idle"
    /\ attempt = 0
    /\ outcomes = <<>>
    /\ slept = <<>>
    /\ aout = <<>>

ApiNext ==
    \/ ApiLoop
    \/ ApiCallReturns
    \/ ApiCallRateLimited
    \/ ApiCallServerError
    \/ ApiCallOtherStatus
    \/ ApiCallFails

(***************************************************************************)
(* Properties of Part VI.                                                  *)
(***************************************************************************)

\* The wrapped function's call number n ended with a rate limit or a server
\* error.
Transient(n) ==
    /\ outcomes[n].kind = "SpotifyException"
    /\ outcomes[n].http_status = 429 \/ outcomes[n].http_status >= 500

\* C32: the wrapped function is called at most max_retries times; a call that
\* returns is the last one and its value is returned; an error status other
\* than 429 and 5xx is raised again after the call that met it, which is the
\* last one; and when every one of max_retries calls met a rate limit or a
\* server error, "Failed after max_retries attempts" is raised.
C32_RetryWrapper ==
    /\ Len(outcomes) <= client_max_retries
    /\ \A n \in 1..Len(outcomes) :
          /\ outcomes[n].kind = "ok" =>
                 n = Len(outcomes) /\ aout = <<[kind |-> "return", what |-> "value", n |-> 0]>>
          /\ (outcomes[n].kind = "SpotifyException" /\ ~Transient(n)) =>
                 /\ n = Len(outcomes)
                 /\ aout = <<[kind |-> "raise", what |-> "SpotifyException",
                              n |-> outcomes[n].http_status]>>
    /\ (aout # <<>> /\ \A n \in 1..Len(outcomes) : Transient(n)) =>
           /\ Len(outcomes) = client_max_retries
           /\ aout = <<[kind |-> "raise", what |-> "Failed after attempts",
                        n |-> client_max_retries]>>

\* Three attempts, a rate limit and two server errors: the wrapper raises
\* "Failed after 3 attempts".
C32_Witness ==
    /\ client_max_retries = 3
    /\ Len(outcomes) = 3
    /\ outcomes[1].http_status = 429
    /\ outcomes[2].http_status = 503
    /\ outcomes[3].http_status = 500
    /\ aout # <<>>
    /\ aout[1].what = "Failed after attempts"

\* C38: the wrapper sleeps only between two attempts: when it has raised,
\* it has slept fewer times than it has called the wrapped function.
C38_SleepsOnlyBetweenAttempts ==
    (apc = "raised" /\ outcomes # <<>>) => Len(slept) < Len(outcomes)

\* No pure function is being called.
IdleFn ==
    /\ call = [fn |-> "none"]
    /\ ret = <<>>

(***************************************************************************)
(* Specifications.                                                         *)
(***************************************************************************)
Init == InitJobs /\ IdleBatch /\ IdleSearch /\ IdleCli /\ IdleFn /\ IdleApi

Next == JobNext

\* The web application: jobs, their threads and the pollers.
Spec == Init /\ [][Next]_vars

\* The worker threads are scheduled: a thread that can take a step takes it.
FairSpec == Spec /\ \A j \in JobIds : WF_vars(process_download(j))

\* One call of download_batch.
InitB == InitJobs /\ InitBatch /\ IdleSearch /\ IdleCli /\ IdleFn /\ IdleApi

SpecBatch == InitB /\ [][DownloaderNext]_vars

\* One call of SearchEngine.search.
InitS == InitJobs /\ IdleBatch /\ InitSearch /\ IdleCli /\ IdleFn /\ IdleApi

SpecSearch == InitS /\ [][SearchNext]_vars

\* One call of _download_batch.
InitC == InitJobs /\ InitCli /\ IdleSearch /\ IdleFn /\ IdleApi

SpecCli == InitC /\ [][CliNext]_vars

\* One pure function called on one input.
InitF == InitJobs /\ IdleBatch /\ IdleSearch /\ IdleCli /\ InitFn /\ IdleApi

SpecFn == InitF /\ [][FnNext]_vars

\* One call of _make_api_call.
InitA == InitJobs /\ IdleBatch /\ IdleSearch /\ IdleCli /\ IdleFn /\ InitApi

SpecApi == InitA /\ [][ApiNext]_vars

=============================================================================
